---- MODULE Spec2Model ----
(***************************************************************************)
(* Force-directed graph layout of the Amsterdam bike fleet back end        *)
(* (src-tauri/src/commands/force_graph.rs and force_graph_pg.rs).          *)
(*                                                                         *)
(* Numbers: f64 coordinates are modelled as integers (pixels); angles are  *)
(* in milliradians and cos/sin are computed in thousandths; strengths are  *)
(* in thousandths; the simulation's alpha is in units of 1/AlphaScale.     *)
(***************************************************************************)
EXTENDS Integers, Sequences, FiniteSets, TLC

\* ------------------------------------------------------------------------
\* Bounds of the model
\* ------------------------------------------------------------------------
MaxPrimaries == 2
MaxSecondaries == 2

\* ------------------------------------------------------------------------
\* Program constants (force_graph.rs:50-66)
\* ------------------------------------------------------------------------
DELIVERER_RADIUS == 40
DELIVERY_RADIUS == 25
ISSUE_RADIUS == 18
DELIVERY_DISTANCE == 120
ISSUE_DISTANCE == 60
\* CENTER_STRENGTH = 0.05, in thousandths
CENTER_STRENGTH == 50
REPULSION_STRENGTH == -300
\* LINK_STRENGTH = 0.7, in thousandths
LINK_STRENGTH == 700
\* the collision padding added to every node's radius, and the bounds padding
COLLIDE_PADDING == 5
COLLIDE_ITERATIONS == 2
LINK_ITERATIONS == 3
BOUNDS_PADDING == 20

\* ------------------------------------------------------------------------
\* Integer helpers
\* ------------------------------------------------------------------------
Abs(a) == IF a < 0 THEN -a ELSE a

\* division truncating toward zero
TruncDiv(a, b) == IF a >= 0 THEN a \div b ELSE -((-a) \div b)

\* division rounding to the nearest integer
RoundDiv(a, b) == IF a >= 0 THEN (a + b \div 2) \div b ELSE -((-a + b \div 2) \div b)

MinOf(a, b) == IF a <= b THEN a ELSE b
MaxOf(a, b) == IF a >= b THEN a ELSE b

RECURSIVE SqrtIter(_, _)
SqrtIter(n, g) ==
    LET h == (g + n \div g) \div 2
    IN IF h >= g THEN g ELSE SqrtIter(n, h)

\* pi and 2*pi in milliradians
PI_MILLI == 3142
TWO_PI_MILLI == 6283

\* cos of x milliradians, |x| <= pi/2, in thousandths: Taylor series to x^8
CosSeries(x) ==
    LET x2 == (x * x) \div 1000
        t2 == x2 \div 2
        t4 == (t2 * x2) \div 12000
        t6 == (t4 * x2) \div 30000
        t8 == (t6 * x2) \div 56000
    IN 1000 - t2 + t4 - t6 + t8

\* cos of a milliradians (a >= 0), in thousandths
Cos(a) ==
    LET r == a % TWO_PI_MILLI
        s == IF r > PI_MILLI THEN TWO_PI_MILLI - r ELSE r
    IN IF s > PI_MILLI \div 2 THEN -CosSeries(PI_MILLI - s) ELSE CosSeries(s)

\* sin of a milliradians (a >= 0), in thousandths: sin a = cos(a - pi/2)
Sin(a) == Cos(a + TWO_PI_MILLI - PI_MILLI \div 2)

\* d * cos(a) and d * sin(a) as pixels
Polar(d, a) == [x |-> RoundDiv(d * Cos(a), 1000), y |-> RoundDiv(d * Sin(a), 1000)]

\* ------------------------------------------------------------------------
\* Upstream entities (models.rs: Bike, Delivery, Issue)
\* ------------------------------------------------------------------------
\* Option::None of Issue.delivery_id
NONE == "<none>"

\* the bike the database holds, and a bike id it does not hold
BikeId == "U1"
AbsentBikeId == "U9"

DeliveryIds == [i \in 1..(MaxPrimaries + 1) |-> <<"D1", "D2", "D3", "D4">>[i]]
IssueIds == [i \in 1..(MaxSecondaries + 1) |-> <<"I1", "I2", "I3", "I4">>[i]]
\* a node id that no entity has
UnknownId == "ZZ"

Bike == [id |-> BikeId, name |-> "Amsterdam Dam Square Bike", status |-> "available"]

Delivery(i) == [id |-> DeliveryIds[i], bike_id |-> BikeId, status |-> "completed",
                customer_name |-> "P. de Vries", rating |-> NONE]

Issue(k, owner) == [id |-> IssueIds[k], delivery_id |-> owner, bike_id |-> BikeId,
                    reporter_type |-> "customer", category |-> "late",
                    resolved |-> FALSE]

\* the owners an issue row can name: none, a delivery of this bike, or a
\* delivery id that get_deliveries_by_bike does not return for this bike
Owners == {NONE} \cup {DeliveryIds[i] : i \in 1..MaxPrimaries}

\* the delivery lists and issue lists the database can return for the bike
DeliveryLists == {[i \in 1..p |-> Delivery(i)] : p \in 0..MaxPrimaries}
IssueLists ==
    UNION {{[k \in 1..s |-> Issue(k, o[k])] : o \in [1..s -> Owners]} : s \in 0..MaxSecondaries}

\* a bike with three deliveries and two issues, one of the first delivery and
\* one standalone
ScenarioDeliveries == [i \in 1..3 |-> Delivery(i)]
ScenarioIssues == <<Issue(1, DeliveryIds[1]), Issue(2, NONE)>>

\* ------------------------------------------------------------------------
\* Graph construction (compute_force_layout, steps 1-3)
\* ------------------------------------------------------------------------
\* 0-based index of the first element of seq, from the i-th on, whose id is
\* the given one, or -1
RECURSIVE FirstFrom(_, _, _)
FirstFrom(seq, id, i) ==
    IF i > Len(seq) THEN -1
    ELSE IF seq[i].id = id THEN i - 1
    ELSE FirstFrom(seq, id, i + 1)

\* seq.iter().position(|e| e.id == id), -1 for None
Position(seq, id) == FirstFrom(seq, id, 1)

\* step 1: the deliverer node at index 0
DelivererNode(bike) ==
    [id |-> bike.id, node_type |-> "Deliverer", label |-> bike.name,
     radius |-> DELIVERER_RADIUS,
     data |-> [name |-> bike.name, status |-> bike.status],
     initial_x |-> 0, initial_y |-> 0]

\* step 2: the i-th (0-based) of delivery_count deliveries on the ring
DeliveryAngle(i, delivery_count) ==
    IF delivery_count > 0 THEN (i * TWO_PI_MILLI) \div delivery_count ELSE 0

DeliveryNode(delivery, i, delivery_count) ==
    LET p == Polar(DELIVERY_DISTANCE, DeliveryAngle(i, delivery_count))
    IN [id |-> delivery.id, node_type |-> "Delivery", label |-> delivery.customer_name,
        radius |-> DELIVERY_RADIUS,
        data |-> [status |-> delivery.status, customer |-> delivery.customer_name,
                  rating |-> delivery.rating],
        initial_x |-> p.x, initial_y |-> p.y]

IssueNode(issue, x, y) ==
    [id |-> issue.id, node_type |-> "Issue", label |-> issue.category,
     radius |-> ISSUE_RADIUS,
     data |-> [category |-> issue.category, resolved |-> issue.resolved,
               reporter |-> issue.reporter_type],
     initial_x |-> x, initial_y |-> y]

\* variant: the link points from the child to its parent
ForceLinkReversed(source, target, strength) ==
    [source |-> target, target |-> source, strength |-> strength]

ForceLink(source, target, strength) ==
    [source |-> source, target |-> target, strength |-> strength]

\* the graph under construction: node_infos, links, link_indices, radii
EmptyGraph == [node_infos |-> <<>>, links |-> <<>>, link_indices |-> <<>>, radii |-> <<>>]

PushDeliverer(g, bike) ==
    [g EXCEPT !.node_infos = Append(@, DelivererNode(bike)),
              !.radii = Append(@, DELIVERER_RADIUS)]

RECURSIVE PushDeliveries(_, _, _, _)
PushDeliveries(g, bike, deliveries, i) ==
    IF i >= Len(deliveries) THEN g
    ELSE LET delivery == deliveries[i + 1]
             delivery_index == Len(g.node_infos)
         IN PushDeliveries(
                [node_infos |-> Append(g.node_infos, DeliveryNode(delivery, i, Len(deliveries))),
                 radii |-> Append(g.radii, DELIVERY_RADIUS),
                 links |-> Append(g.links, ForceLink(bike.id, delivery.id, LINK_STRENGTH)),
                 link_indices |-> Append(g.link_indices, <<0, delivery_index>>)],
                bike, deliveries, i + 1)

IsStandalone(issue) == issue.delivery_id = NONE
\* variant: every issue is handled as a linked one
AlwaysLinked(issue) == TRUE
IsLinked(issue) == issue.delivery_id # NONE

\* variant: a delivery that is not found counts as the deliverer
FindDeliveryOrCenter(node_infos, delivery_id) ==
    LET idx == Position(node_infos, delivery_id)
    IN IF idx >= 0
       THEN [idx |-> idx, x |-> node_infos[idx + 1].initial_x, y |-> node_infos[idx + 1].initial_y]
       ELSE [idx |-> 0, x |-> 0, y |-> 0]

\* the delivery node a linked issue hangs on: index and initial position of
\* the first node with the issue's delivery_id, or the fallback (1, 120, 0)
FindDelivery(node_infos, delivery_id) ==
    LET idx == Position(node_infos, delivery_id)
    IN IF idx >= 0
       THEN [idx |-> idx, x |-> node_infos[idx + 1].initial_x, y |-> node_infos[idx + 1].initial_y]
       ELSE [idx |-> 1, x |-> DELIVERY_DISTANCE, y |-> 0]

\* variant: 0.8 rad times the index of the issue among the linked issues
AngleOffsetAmongLinked(issues, issue) ==
    LET pos == Position(SelectSeq(issues, IsLinked), issue.id)
    IN (IF pos >= 0 THEN pos ELSE 0) * 800

\* 0.8 rad times the index of the issue in the full issue list
AngleOffset(issues, issue) ==
    LET pos == Position(issues, issue.id)
    IN (IF pos >= 0 THEN pos ELSE 0) * 800

RECURSIVE PushLinkedIssues(_, _, _, _)
PushLinkedIssues(g, issues, linked_issues, k) ==
    IF k > Len(linked_issues) THEN g
    ELSE LET issue == linked_issues[k]
             d == FindDelivery(g.node_infos, issue.delivery_id)
             off == Polar(ISSUE_DISTANCE, AngleOffset(issues, issue))
             issue_index == Len(g.node_infos)
         IN PushLinkedIssues(
                [node_infos |-> Append(g.node_infos, IssueNode(issue, d.x + off.x, d.y + off.y)),
                 radii |-> Append(g.radii, ISSUE_RADIUS),
                 links |-> Append(g.links,
                                  ForceLink(issue.delivery_id, issue.id, (LINK_STRENGTH * 8) \div 10)),
                 link_indices |-> Append(g.link_indices, <<d.idx, issue_index>>)],
                issues, linked_issues, k + 1)

StandaloneAngle(i, standalone_count) ==
    IF standalone_count > 0
    THEN (i * TWO_PI_MILLI) \div standalone_count + PI_MILLI \div 4
    ELSE 0

RECURSIVE PushStandaloneIssues(_, _, _, _)
PushStandaloneIssues(g, bike, standalone_issues, i) ==
    IF i >= Len(standalone_issues) THEN g
    ELSE LET issue == standalone_issues[i + 1]
             p == Polar(DELIVERY_DISTANCE + ISSUE_DISTANCE,
                        StandaloneAngle(i, Len(standalone_issues)))
             issue_index == Len(g.node_infos)
         IN PushStandaloneIssues(
                [node_infos |-> Append(g.node_infos, IssueNode(issue, p.x, p.y)),
                 radii |-> Append(g.radii, ISSUE_RADIUS),
                 links |-> Append(g.links,
                                  ForceLink(bike.id, issue.id, (LINK_STRENGTH * 5) \div 10)),
                 link_indices |-> Append(g.link_indices, <<0, issue_index>>)],
                bike, standalone_issues, i + 1)

\* variant: the standalone issues are pushed before the linked ones
BuildGraphStandaloneFirst(bike, deliveries, issues) ==
    LET g1 == PushDeliverer(EmptyGraph, bike)
        g2 == PushDeliveries(g1, bike, deliveries, 0)
        g3 == PushStandaloneIssues(g2, bike, SelectSeq(issues, IsStandalone), 0)
    IN PushLinkedIssues(g3, issues, SelectSeq(issues, IsLinked), 1)

\* steps 1-3 of compute_force_layout
BuildGraph(bike, deliveries, issues) ==
    LET g1 == PushDeliverer(EmptyGraph, bike)
        g2 == PushDeliveries(g1, bike, deliveries, 0)
        g3 == PushLinkedIssues(g2, issues, SelectSeq(issues, IsLinked), 1)
    IN PushStandaloneIssues(g3, bike, SelectSeq(issues, IsStandalone), 0)

\* ------------------------------------------------------------------------
\* Fjadra particles (compute_force_layout, step 4)
\* ------------------------------------------------------------------------
\* Option<(&str, f64, f64)>
NoFixedNode == [some |-> FALSE, id |-> "", x |-> 0, y |-> 0]
SomeFixedNode(id, x, y) == [some |-> TRUE, id |-> id, x |-> x, y |-> y]

\* Node::default().position(x, y) and Node::default().fixed_position(x, y)
FreeNode(x, y) == [x |-> x, y |-> y, vx |-> 0, vy |-> 0, fixed |-> FALSE, fx |-> 0, fy |-> 0]
FixedNode(fx, fy) == [x |-> fx, y |-> fy, vx |-> 0, vy |-> 0, fixed |-> TRUE, fx |-> fx, fy |-> fy]

\* variant: an id that no node has counts as the deliverer's
FixedNodeIndexOrZero(node_infos, fixed_node) ==
    IF fixed_node.some
    THEN MaxOf(0, Position(node_infos, fixed_node.id))
    ELSE -1

\* Option<usize>: the index of the first node with the fixed id, -1 for None
FixedNodeIndex(node_infos, fixed_node) ==
    IF fixed_node.some
    THEN Position(node_infos, fixed_node.id)
    ELSE -1

\* variant: the dragged node is not fixed
ParticleUnpinned(node_infos, fixed_node, idx) ==
    LET info == node_infos[idx + 1]
    IN IF idx = 0 /\ FixedNodeIndex(node_infos, fixed_node) # 0
       THEN FixedNode(0, 0)
       ELSE FreeNode(info.initial_x, info.initial_y)

\* variant: the deliverer is not fixed at the center
ParticleFloating(node_infos, fixed_node, idx) ==
    LET info == node_infos[idx + 1]
    IN IF fixed_node.some /\ info.id = fixed_node.id
       THEN FixedNode(fixed_node.x, fixed_node.y)
       ELSE FreeNode(info.initial_x, info.initial_y)

\* variant: the deliverer is fixed at the center before the dragged node is
\* looked at
ParticleOriginFirst(node_infos, fixed_node, idx) ==
    LET info == node_infos[idx + 1]
    IN IF idx = 0
       THEN FixedNode(0, 0)
       ELSE IF fixed_node.some /\ info.id = fixed_node.id
       THEN FixedNode(fixed_node.x, fixed_node.y)
       ELSE FreeNode(info.initial_x, info.initial_y)

\* the particle of node idx (0-based)
Particle(node_infos, fixed_node, idx) ==
    LET info == node_infos[idx + 1]
    IN IF fixed_node.some /\ info.id = fixed_node.id
       THEN FixedNode(fixed_node.x, fixed_node.y)
       ELSE IF idx = 0 /\ FixedNodeIndex(node_infos, fixed_node) # 0
       THEN FixedNode(0, 0)
       ELSE FreeNode(info.initial_x, info.initial_y)

Particles(node_infos, fixed_node) ==
    [i \in 1..Len(node_infos) |-> Particle(node_infos, fixed_node, i - 1)]

\* ------------------------------------------------------------------------
\* Fjadra simulation (compute_force_layout, step 5)
\* ------------------------------------------------------------------------
\* alpha in units of 1/AlphaScale: it starts at 1, decays toward 0 by
\* 1 - 0.001^(1/300) per tick, and the simulation stops below 0.001
AlphaScale == 100000
ALPHA_INIT == 100000
ALPHA_MIN == 100
ALPHA_DECAY == 2276
\* the fraction of the velocity a free node keeps per tick, in tenths
VELOCITY_KEEP == 6
\* the default spring length of Link
LINK_DISTANCE == 30

NextAlpha(alpha) == alpha - RoundDiv(alpha * ALPHA_DECAY, AlphaScale)

\* f scaled by alpha
Scaled(f, alpha) == TruncDiv(f * alpha, AlphaScale)

RECURSIVE SumTo(_, _)
SumTo(f, n) == IF n = 0 THEN 0 ELSE f[n] + SumTo(f, n - 1)

\* the sum of the vectors f[1] .. f[n]
RECURSIVE SumVec(_, _)
SumVec(f, n) ==
    IF n = 0 THEN <<0, 0>>
    ELSE LET r == SumVec(f, n - 1)
             v == f[n]
         IN <<v[1] + r[1], v[2] + r[2]>>

\* the length of the vector (dx, dy), rounded down
Length(dx, dy) ==
    IF dx = 0 /\ dy = 0 THEN 0 ELSE SqrtIter(dx * dx + dy * dy, Abs(dx) + Abs(dy))

\* the position a node is heading to
AheadX(p) == p.x + p.vx
AheadY(p) == p.y + p.vy

\* the vector from q to p; coincident nodes are told apart by their indices
Apart(p, q, i, j) ==
    LET dx == AheadX(p) - AheadX(q)
        dy == AheadY(p) - AheadY(q)
    IN IF dx = 0 /\ dy = 0 THEN <<IF i < j THEN -1 ELSE 1, 0>> ELSE <<dx, dy>>

\* a as a sequence of values
Seq0(a) == a \o <<>>

AddVelocity(ps, a) ==
    Seq0([i \in 1..Len(ps) |->
            LET v == a[i] IN [ps[i] EXCEPT !.vx = @ + v[1], !.vy = @ + v[2]]])

\* what every node gets from a force between pairs: f[i][j] is what node i
\* gets from node j > i, and node j gets the opposite
PairForce(f, n) ==
    [i \in 1..n |->
        SumVec([j \in 1..n |->
                   IF i < j THEN f[i][j]
                   ELSE IF j < i THEN <<-f[j][i][1], -f[j][i][2]>>
                   ELSE <<0, 0>>], n)]

\* Center::new().strength(CENTER_STRENGTH)
CenterForce(ps, alpha) ==
    AddVelocity(ps, [i \in 1..Len(ps) |->
        <<-Scaled(TruncDiv(ps[i].x * CENTER_STRENGTH, 1000), alpha),
          -Scaled(TruncDiv(ps[i].y * CENTER_STRENGTH, 1000), alpha)>>])

\* ManyBody::new().strength(|_, _| REPULSION_STRENGTH)
ManyBodyForce(ps, alpha) ==
    LET Push(i, j) ==
            LET a == Apart(ps[i], ps[j], i, j)
                d2 == a[1] * a[1] + a[2] * a[2]
            IN <<Scaled(TruncDiv(a[1] * (-REPULSION_STRENGTH), d2), alpha),
                 Scaled(TruncDiv(a[2] * (-REPULSION_STRENGTH), d2), alpha)>>
        n == Len(ps)
        f == Seq0([i \in 1..n |->
                     Seq0([j \in 1..n |-> IF i < j THEN Push(i, j) ELSE <<0, 0>>])])
    IN AddVelocity(ps, PairForce(f, n))

\* variant: no node has a collision radius
CollideRadiusZero(radii, i) == 0

\* variant: the collision radius of a node is its radius, without padding
CollideRadiusUnpadded(radii, i) == radii[i + 1]

\* Collide::new().radius(move |i| radii_clone[i] + 5.0): i is 0-based
CollideRadius(radii, i) == radii[i + 1] + COLLIDE_PADDING

\* the distance below which nodes i and j (0-based) collide
CollideDistance(radii, i, j) == CollideRadius(radii, i) + CollideRadius(radii, j)

\* two nodes collide when their centers are closer than the sum of their
\* collision radii
Colliding(radii, ps, i, j) ==
    LET a == Apart(ps[i + 1], ps[j + 1], i, j)
        r == CollideDistance(radii, i, j)
    IN a[1] * a[1] + a[2] * a[2] < r * r

CollidePass(ps, radii) ==
    LET Push(i, j) ==
            IF ~Colliding(radii, ps, i - 1, j - 1) THEN <<0, 0>>
            ELSE LET a == Apart(ps[i], ps[j], i, j)
                     d == Length(a[1], a[2])
                     overlap == CollideDistance(radii, i - 1, j - 1) - d
                     share == (overlap + 1) \div 2
                 IN <<TruncDiv(a[1] * share, d), TruncDiv(a[2] * share, d)>>
        n == Len(ps)
        f == Seq0([i \in 1..n |->
                     Seq0([j \in 1..n |-> IF i < j THEN Push(i, j) ELSE <<0, 0>>])])
    IN AddVelocity(ps, PairForce(f, n))

RECURSIVE CollideForce(_, _, _)
CollideForce(ps, radii, iterations) ==
    IF iterations = 0 THEN ps
    ELSE CollideForce(CollidePass(ps, radii), radii, iterations - 1)

\* the number of links that touch node i (0-based)
LinkCount(link_indices, i) ==
    SumTo([k \in 1..Len(link_indices) |->
              (IF link_indices[k][1] = i THEN 1 ELSE 0) + (IF link_indices[k][2] = i THEN 1 ELSE 0)],
          Len(link_indices))

\* variant: every spring has strength 1
SpringStrengthUnit(link_indices, k) == 1000

\* Link::new(link_indices) keeps the default strength of a spring, in
\* thousandths: 1 / min(count(source), count(target))
SpringStrength(link_indices, k) ==
    1000 \div MinOf(LinkCount(link_indices, link_indices[k][1]),
                    LinkCount(link_indices, link_indices[k][2]))

\* the springs of the Link force, one per index pair: its endpoints (0-based),
\* its strength and the link counts of its endpoints
Springs(link_indices) ==
    [k \in 1..Len(link_indices) |->
        [source |-> link_indices[k][1], target |-> link_indices[k][2],
         strength |-> SpringStrength(link_indices, k),
         source_count |-> LinkCount(link_indices, link_indices[k][1]),
         target_count |-> LinkCount(link_indices, link_indices[k][2])]]

\* what spring k adds to the velocities of its source and of its target:
\* the endpoint with fewer links moves more
SpringPull(ps, spring, alpha) ==
    LET s == spring.source + 1
        t == spring.target + 1
        a == Apart(ps[t], ps[s], t, s)
        d == Length(a[1], a[2])
        pull == Scaled(TruncDiv((d - LINK_DISTANCE) * spring.strength, 1000), alpha)
        to_source == TruncDiv(pull * spring.target_count, spring.source_count + spring.target_count)
        to_target == pull - to_source
    IN IF s = t THEN <<0, 0, 0, 0>>
       ELSE <<TruncDiv(a[1] * to_source, d), TruncDiv(a[2] * to_source, d),
              -TruncDiv(a[1] * to_target, d), -TruncDiv(a[2] * to_target, d)>>

LinkPass(ps, sp, alpha) ==
    LET m == Len(sp)
        f == Seq0([k \in 1..m |-> SpringPull(ps, sp[k], alpha)])
    IN AddVelocity(ps, [i \in 1..Len(ps) |->
           SumVec([k \in 1..m |->
                      <<(IF sp[k].source + 1 = i THEN f[k][1] ELSE 0)
                          + (IF sp[k].target + 1 = i THEN f[k][3] ELSE 0),
                        (IF sp[k].source + 1 = i THEN f[k][2] ELSE 0)
                          + (IF sp[k].target + 1 = i THEN f[k][4] ELSE 0)>>], m)])

RECURSIVE LinkForce(_, _, _, _)
LinkForce(ps, sp, alpha, iterations) ==
    IF iterations = 0 THEN ps
    ELSE LinkForce(LinkPass(ps, sp, alpha), sp, alpha, iterations - 1)

\* a fixed node is put back on its fixed position, a free node moves by its
\* decayed velocity
Integrate(ps) ==
    Seq0([i \in 1..Len(ps) |->
        IF ps[i].fixed
        THEN [ps[i] EXCEPT !.x = ps[i].fx, !.y = ps[i].fy, !.vx = 0, !.vy = 0]
        ELSE LET vx == TruncDiv(ps[i].vx * VELOCITY_KEEP, 10)
                 vy == TruncDiv(ps[i].vy * VELOCITY_KEEP, 10)
             IN [ps[i] EXCEPT !.x = @ + vx, !.y = @ + vy, !.vx = vx, !.vy = vy]])

\* one tick at the given alpha: the forces in the order they were added
SimulationTick(ps, radii, sp, alpha) ==
    LET p1 == CenterForce(ps, alpha)
        p2 == ManyBodyForce(p1, alpha)
        p3 == CollideForce(p2, radii, COLLIDE_ITERATIONS)
        p4 == LinkForce(p3, sp, alpha, LINK_ITERATIONS)
    IN Integrate(p4)

\* simulation.positions()
Positions(ps) == [i \in 1..Len(ps) |-> <<ps[i].x, ps[i].y>>]

\* ------------------------------------------------------------------------
\* Layout extraction (compute_force_layout, step 6, and compute_bounds)
\* ------------------------------------------------------------------------
\* stand-ins for f64::MAX and f64::MIN
F64_MAX == 1000000000
F64_MIN == -1000000000

ForceNode(info, x, y) ==
    [id |-> info.id, node_type |-> info.node_type, label |-> info.label,
     x |-> x, y |-> y, radius |-> info.radius, data |-> info.data]

\* positions.get(i).copied().unwrap_or([info.initial_x, info.initial_y])
ExtractNodes(infos, positions) ==
    [i \in 1..Len(infos) |->
        IF i <= Len(positions)
        THEN ForceNode(infos[i], positions[i][1], positions[i][2])
        ELSE ForceNode(infos[i], infos[i].initial_x, infos[i].initial_y)]

RECURSIVE FoldBounds(_, _, _)
FoldBounds(nodes, i, b) ==
    IF i > Len(nodes) THEN b
    ELSE LET node == nodes[i]
         IN FoldBounds(nodes, i + 1,
                       [min_x |-> MinOf(b.min_x, node.x - node.radius),
                        max_x |-> MaxOf(b.max_x, node.x + node.radius),
                        min_y |-> MinOf(b.min_y, node.y - node.radius),
                        max_y |-> MaxOf(b.max_y, node.y + node.radius)])

\* variant: the box of the node centers, padded
compute_bounds_of_centers(nodes) ==
    IF Len(nodes) = 0 THEN <<0, 0, 0, 0>>
    ELSE LET b == FoldBounds([i \in 1..Len(nodes) |-> [nodes[i] EXCEPT !.radius = 0]], 1,
                             [min_x |-> F64_MAX, max_x |-> F64_MIN,
                              min_y |-> F64_MAX, max_y |-> F64_MIN])
         IN <<b.min_x - BOUNDS_PADDING, b.max_x + BOUNDS_PADDING,
              b.min_y - BOUNDS_PADDING, b.max_y + BOUNDS_PADDING>>

\* variant: the box of the nodes, without padding
compute_bounds_unpadded(nodes) ==
    IF Len(nodes) = 0 THEN <<0, 0, 0, 0>>
    ELSE LET b == FoldBounds(nodes, 1, [min_x |-> F64_MAX, max_x |-> F64_MIN,
                                        min_y |-> F64_MAX, max_y |-> F64_MIN])
         IN <<b.min_x, b.max_x, b.min_y, b.max_y>>

\* variant: the fold is run on an empty list as well
compute_bounds_unguarded(nodes) ==
    LET b == FoldBounds(nodes, 1, [min_x |-> F64_MAX, max_x |-> F64_MIN,
                                   min_y |-> F64_MAX, max_y |-> F64_MIN])
    IN <<b.min_x - BOUNDS_PADDING, b.max_x + BOUNDS_PADDING,
         b.min_y - BOUNDS_PADDING, b.max_y + BOUNDS_PADDING>>

\* (min_x, max_x, min_y, max_y)
compute_bounds(nodes) ==
    IF Len(nodes) = 0 THEN <<0, 0, 0, 0>>
    ELSE LET b == FoldBounds(nodes, 1, [min_x |-> F64_MAX, max_x |-> F64_MIN,
                                        min_y |-> F64_MAX, max_y |-> F64_MIN])
         IN <<b.min_x - BOUNDS_PADDING, b.max_x + BOUNDS_PADDING,
              b.min_y - BOUNDS_PADDING, b.max_y + BOUNDS_PADDING>>

\* variant: the center field is where the first node ended up
ForceGraphDataAroundFirst(infos, graph_links, positions) ==
    LET nodes == ExtractNodes(infos, positions)
    IN [nodes |-> nodes, links |-> graph_links,
        center_x |-> IF Len(nodes) > 0 THEN nodes[1].x ELSE 0,
        center_y |-> IF Len(nodes) > 0 THEN nodes[1].y ELSE 0,
        bounds |-> compute_bounds(nodes)]

ForceGraphData(infos, graph_links, positions) ==
    LET nodes == ExtractNodes(infos, positions)
    IN [nodes |-> nodes, links |-> graph_links, center_x |-> 0, center_y |-> 0,
        bounds |-> compute_bounds(nodes)]

\* Result<ForceGraphData, DatabaseError>
Ok(layout) == [kind |-> "ok", layout |-> layout]
Err(error) == [kind |-> "err", error |-> error]
Pending == [kind |-> "pending"]
\* Ok("Database initialized successfully at: ..")
Initialized == [kind |-> "initialized"]

NotInitialized == "Database not initialized"
BikeNotFound == "Invalid data: Bike not found"

\* ------------------------------------------------------------------------
\* State
\* ------------------------------------------------------------------------
VARIABLES
    db_open,       \* AppState.db is Some
    deliveries,    \* what get_deliveries_by_bike returns for the bike
    issues,        \* what get_issues_by_bike returns for the bike
    pc,            \* "idle", "running" (inside simulation.step()) or "done"
    req,           \* the command being served and its arguments
    node_infos,    \* locals of compute_force_layout
    links,
    link_indices,
    radii,
    particles,     \* the nodes of the simulation
    springs,       \* the springs of the simulation's Link force
    alpha,
    ticks,         \* ticks run by simulation.step()
    result,        \* what the command returned
    plain_layout   \* history: what the latest get_force_graph_layout that
                   \* computed a Layout returned

VARIABLES
    waiting,       \* an invocation blocked on state.db.lock() while another runs
    overlapped,    \* the command being served arrived while another was running
    prev,          \* history: the command served before the one being served
    first          \* history: the first command that computed a Layout (it ran
                   \* alone, with nothing before it) and what it returned

layout_vars == <<db_open, deliveries, issues, pc, req, node_infos, links, link_indices,
                 radii, particles, springs, alpha, ticks, result, plain_layout>>

history_vars == <<waiting, overlapped, prev, first>>

VARIABLES
    crypto,        \* SecureSessionState.crypto: None or the SessionCrypto
    validated,     \* history: verify_license accepted a key in init_secure_session
    calls,         \* the encrypt call each thread is in
    log,           \* history: what encrypt returned, in the order of return
    sent,          \* the output of the latest encrypt
    wire,          \* the bytes handed to decrypt or to secure_invoke
    outcome        \* what the latest decrypt, init_secure_session or
                   \* secure_invoke returned, and what it touched

secure_vars == <<crypto, validated, calls, log, sent, wire, outcome>>

VARIABLES
    license_file,  \* the license file of LicenseStorage: absent or its content
    activated,     \* history: the latest key that activate_license accepted
                   \* since the latest deactivate_license
    response,      \* what the latest license command returned
    now            \* Utc::now(), in days

license_vars == <<license_file, activated, response, now>>

VARIABLES
    node_list,     \* the nodes handed to compute_bounds
    bounds_value,  \* what compute_bounds returned
    combined,      \* generate_license: the payload bytes followed by the signature
    printed_key,   \* the license key generate_license printed
    decoded,       \* verify_license: what URL_SAFE_NO_PAD.decode(&key_clean) gave
    fleet,         \* the bikes the caller of the simulation holds
    sim_result     \* what the latest simulateBikeMovement or simulationTick returned

call_vars == <<node_list, bounds_value, combined, printed_key, decoded, fleet, sim_result>>

vars == <<layout_vars, history_vars, secure_vars, license_vars, call_vars>>

\* the coordinates a caller drags a node to
DragPoints == {<<50, -30>>}

\* the node ids a caller names
DragIds == {BikeId, DeliveryIds[1], IssueIds[1], UnknownId}

NoRequest == [kind |-> "none", bike_id |-> "", fixed_node |-> NoFixedNode]

NoFirst == [req |-> NoRequest, result |-> Pending]

\* Option::None of SecureSessionState.crypto
NoCrypto == [some |-> FALSE, license |-> <<>>, session_nonce |-> "", nonce_counter |-> 0]

\* the threads that call SessionCrypto::encrypt
Threads == {1, 2}
NoCall == [at |-> "idle", plaintext |-> <<>>, counter |-> 0]

\* of: the operation; input: the bytes it was handed; by: the SessionCrypto
\* it used; ok, value, error: the Result; encrypted: the Result is an output
\* of encrypt; decrypted, db_locked: the call reached crypto.decrypt,
\* state.db.lock()
NoOutcome == [of |-> "none", input |-> <<>>, by |-> NoCrypto, ok |-> FALSE,
              value |-> <<>>, error |-> "", encrypted |-> FALSE,
              decrypted |-> FALSE, db_locked |-> FALSE]

\* no license file
NoFile == <<"<absent>">>
\* of: the command; key: the key it verified; at: the day it ran
NoResponse == [of |-> "none", key |-> <<>>, at |-> 0, success |-> FALSE,
               valid |-> FALSE, message |-> ""]

\* decode has not been called
NoDecoded == [called |-> FALSE, ok |-> FALSE, bytes |-> <<>>, error |-> ""]
\* no simulation call has returned
NoSimulation ==
    [of |-> "none", ok |-> FALSE, seq |-> 0, seed |-> [k |-> "num", v |-> 0], given |-> <<>>,
     bikes |-> <<>>, movements_applied |-> 0, bounds_corrections |-> 0,
     status_transitions |-> 0, error |-> ""]

\* no pure function has been called and no fleet is simulated
CallFresh ==
    /\ node_list = <<>>
    /\ bounds_value = <<>>
    /\ combined = <<>>
    /\ printed_key = <<>>
    /\ decoded = NoDecoded
    /\ fleet = <<>>
    /\ sim_result = NoSimulation

\* the secure session has not been used
SecureFresh ==
    /\ crypto = NoCrypto
    /\ validated = FALSE
    /\ calls = [t \in Threads |-> NoCall]
    /\ log = <<>>
    /\ sent = <<>>
    /\ wire = <<>>
    /\ outcome = NoOutcome

\* no license has been activated
LicenseFresh ==
    /\ license_file = NoFile
    /\ activated = NoFile
    /\ response = NoResponse
    /\ now = 0

\* no command has been served
Fresh ==
    /\ pc = "idle"
    /\ req = NoRequest
    /\ node_infos = <<>>
    /\ links = <<>>
    /\ link_indices = <<>>
    /\ radii = <<>>
    /\ particles = <<>>
    /\ springs = <<>>
    /\ alpha = 0
    /\ ticks = 0
    /\ result = Pending
    /\ plain_layout = Pending
    /\ waiting = NoRequest
    /\ overlapped = FALSE
    /\ prev = NoRequest
    /\ first = NoFirst

Init ==
    /\ db_open = FALSE
    /\ \/ deliveries \in DeliveryLists /\ issues \in IssueLists
       \/ deliveries = ScenarioDeliveries /\ issues = ScenarioIssues
    /\ Fresh
    /\ SecureFresh
    /\ LicenseFresh
    /\ CallFresh

\* ------------------------------------------------------------------------
\* Commands
\* ------------------------------------------------------------------------
\* init_database: stores an open database in the application state
InitDatabase ==
    /\ pc # "running"
    /\ ~db_open
    /\ db_open' = TRUE
    /\ req' = [kind |-> "init_database", bike_id |-> "", fixed_node |-> NoFixedNode]
    /\ result' = Initialized
    /\ pc' = "done"
    /\ UNCHANGED <<deliveries, issues, node_infos, links, link_indices,
                   radii, particles, springs, alpha, ticks, plain_layout>>

\* variant: a bike is found for every id
get_any_bike(bike_id) == {[Bike EXCEPT !.id = bike_id]}

\* db.get_bike_by_id(&bike_id)
get_bike_by_id(bike_id) == IF bike_id = Bike.id THEN {Bike} ELSE {}

\* the command fails before any layout is computed
Fail(error) ==
    /\ result' = Err(error)
    /\ pc' = "done"
    /\ node_infos' = <<>>
    /\ links' = <<>>
    /\ link_indices' = <<>>
    /\ radii' = <<>>
    /\ particles' = <<>>
    /\ springs' = <<>>
    /\ alpha' = 0
    /\ ticks' = 0

\* variant: the simulation of an earlier command is not reheated
StartLayoutStale(bike, fixed_node) ==
    LET g == BuildGraph(bike, deliveries, issues)
    IN /\ node_infos' = g.node_infos
       /\ links' = g.links
       /\ link_indices' = g.link_indices
       /\ radii' = g.radii
       /\ particles' = Particles(g.node_infos, fixed_node)
       /\ springs' = Springs(g.link_indices)
       /\ alpha' = IF ticks > 0 THEN alpha ELSE ALPHA_INIT
       /\ ticks' = 0
       /\ result' = Pending
       /\ pc' = "running"

\* variant: the free nodes start where the command served before left them
StartLayoutWarm(bike, fixed_node) ==
    LET g == BuildGraph(bike, deliveries, issues)
        fresh == Particles(g.node_infos, fixed_node)
    IN /\ node_infos' = g.node_infos
       /\ links' = g.links
       /\ link_indices' = g.link_indices
       /\ radii' = g.radii
       /\ particles' = [i \in 1..Len(fresh) |->
                           IF fresh[i].fixed \/ i > Len(particles) THEN fresh[i]
                           ELSE [fresh[i] EXCEPT !.x = particles[i].x, !.y = particles[i].y]]
       /\ springs' = Springs(g.link_indices)
       /\ alpha' = ALPHA_INIT
       /\ ticks' = 0
       /\ result' = Pending
       /\ pc' = "running"

\* variant: a command without a pin keeps the pin of the command before it
StartLayoutPinned(bike, fixed_node) ==
    LET g == BuildGraph(bike, deliveries, issues)
    IN /\ node_infos' = g.node_infos
       /\ links' = g.links
       /\ link_indices' = g.link_indices
       /\ radii' = g.radii
       /\ particles' = Particles(g.node_infos,
                                  IF fixed_node.some THEN fixed_node ELSE req.fixed_node)
       /\ springs' = Springs(g.link_indices)
       /\ alpha' = ALPHA_INIT
       /\ ticks' = 0
       /\ result' = Pending
       /\ pc' = "running"

\* compute_force_layout up to the start of simulation.step()
StartLayout(bike, fixed_node) ==
    LET g == BuildGraph(bike, deliveries, issues)
    IN /\ node_infos' = g.node_infos
       /\ links' = g.links
       /\ link_indices' = g.link_indices
       /\ radii' = g.radii
       /\ particles' = Particles(g.node_infos, fixed_node)
       /\ springs' = Springs(g.link_indices)
       /\ alpha' = ALPHA_INIT
       /\ ticks' = 0
       /\ result' = Pending
       /\ pc' = "running"

\* the body shared by the two commands: lock the database, fetch the bike,
\* its deliveries and its issues, and compute the layout
Command(kind, bike_id, fixed_node) ==
    /\ pc # "running"
    /\ req' = [kind |-> kind, bike_id |-> bike_id, fixed_node |-> fixed_node]
    /\ IF ~db_open THEN Fail(NotInitialized)
       ELSE IF get_bike_by_id(bike_id) = {} THEN Fail(BikeNotFound)
       ELSE StartLayout(CHOOSE b \in get_bike_by_id(bike_id) : TRUE, fixed_node)
    /\ UNCHANGED <<db_open, deliveries, issues, plain_layout>>

get_force_graph_layout ==
    \E bike_id \in {BikeId, AbsentBikeId} :
        Command("get_force_graph_layout", bike_id, NoFixedNode)

update_node_position ==
    \E bike_id \in {BikeId, AbsentBikeId}, node_id \in DragIds, p \in DragPoints :
        Command("update_node_position", bike_id, SomeFixedNode(node_id, p[1], p[2]))

\* simulation.step(): one more tick while alpha has not dropped below alpha_min
Tick ==
    /\ pc = "running"
    /\ alpha >= ALPHA_MIN
    /\ alpha' = NextAlpha(alpha)
    /\ particles' = SimulationTick(particles, radii, springs, NextAlpha(alpha))
    /\ ticks' = ticks + 1
    /\ UNCHANGED <<db_open, deliveries, issues, pc, req, node_infos, links,
                   link_indices, radii, springs, result, plain_layout>>

\* the simulation has stopped: extract the positions and return the Layout
Return ==
    /\ pc = "running"
    /\ alpha < ALPHA_MIN
    /\ result' = Ok(ForceGraphData(node_infos, links, Positions(particles)))
    /\ plain_layout' = IF req.kind = "get_force_graph_layout" THEN result' ELSE plain_layout
    /\ pc' = "done"
    /\ UNCHANGED <<db_open, deliveries, issues, req, node_infos, links,
                   link_indices, radii, particles, springs, alpha, ticks>>

\* commands invoked one after another
Next ==
    \/ InitDatabase /\ UNCHANGED <<history_vars, secure_vars, license_vars, call_vars>>
    \/ get_force_graph_layout /\ UNCHANGED <<history_vars, secure_vars, license_vars, call_vars>>
    \/ update_node_position /\ UNCHANGED <<history_vars, secure_vars, license_vars, call_vars>>
    \/ Tick /\ UNCHANGED <<history_vars, secure_vars, license_vars, call_vars>>
    \/ Return /\ UNCHANGED <<history_vars, secure_vars, license_vars, call_vars>>

Spec == Init /\ [][Next]_vars

\* ------------------------------------------------------------------------
\* Overlapping invocations
\* ------------------------------------------------------------------------
\* Both commands take state.db.lock() first and hold the guard until they
\* return, so an invocation that arrives while another runs blocks on the
\* lock and runs when the guard is dropped.
Requests ==
    {[kind |-> "get_force_graph_layout", bike_id |-> BikeId, fixed_node |-> NoFixedNode]}
    \cup {[kind |-> "update_node_position", bike_id |-> BikeId,
            fixed_node |-> SomeFixedNode(id, 50, -30)] : id \in {DeliveryIds[1], IssueIds[2]}}

Invoke(request) == Command(request.kind, request.bike_id, request.fixed_node)

\* an invocation finds the lock free
Acquire ==
    /\ waiting = NoRequest
    /\ \E request \in Requests : Invoke(request)
    /\ prev' = req
    /\ overlapped' = FALSE
    /\ UNCHANGED <<waiting, first, secure_vars, license_vars, call_vars>>

\* an invocation arrives while another holds the lock
Block ==
    /\ pc = "running"
    /\ waiting = NoRequest
    /\ waiting' \in Requests
    /\ UNCHANGED <<layout_vars, overlapped, prev, first, secure_vars, license_vars, call_vars>>

\* the guard is dropped and the blocked invocation takes the lock
Unblock ==
    /\ waiting # NoRequest
    /\ Invoke(waiting)
    /\ waiting' = NoRequest
    /\ prev' = req
    /\ overlapped' = TRUE
    /\ UNCHANGED <<first, secure_vars, license_vars, call_vars>>

Step == Tick /\ UNCHANGED <<history_vars, secure_vars, license_vars, call_vars>>

Finish ==
    /\ Return
    /\ first' = IF first = NoFirst THEN [req |-> req, result |-> result'] ELSE first
    /\ UNCHANGED <<waiting, overlapped, prev, secure_vars, license_vars, call_vars>>

HistoryInit ==
    /\ db_open = TRUE
    /\ deliveries = <<Delivery(1)>>
    /\ issues = ScenarioIssues
    /\ Fresh
    /\ SecureFresh
    /\ LicenseFresh
    /\ CallFresh

HistoryNext == Acquire \/ Block \/ Unblock \/ Step \/ Finish

HistorySpec == HistoryInit /\ [][HistoryNext]_vars

\* ------------------------------------------------------------------------
\* License keys (license.rs)
\* ------------------------------------------------------------------------
\* the days the clock runs over
MaxClock == 2

\* a license key is a string: the characters of the prefix, then one element
\* per run of base64 characters, "-" and " " standing for themselves
LICENSE_PREFIX == <<"A", "B", "F", "-">>

ValidKey1 == LICENSE_PREFIX \o <<"v1">>
ValidKey2 == LICENSE_PREFIX \o <<"v2a", "-", "v2b">>

\* the keys a caller presents: two genuine ones, one past its expiry, one
\* whose signature is not the vendor's, one of another product, one
\* without the prefix and a genuine one followed by a blank
LicenseKeys ==
    {ValidKey1, ValidKey2, LICENSE_PREFIX \o <<"old">>, LICENSE_PREFIX \o <<"forged">>,
     LICENSE_PREFIX \o <<"other">>, <<"v1">>, ValidKey1 \o <<" ">>}

\* what URL_SAFE_NO_PAD.decode, the Ed25519 verification and serde_json give
\* for the base64 text of a key: whether the signature is the vendor's, the
\* product and the day the license expires
Decoded(text) ==
    IF text = <<"v1">> THEN [signed |-> TRUE, product |-> "amsterdam-bike-fleet", expires |-> 9]
    ELSE IF text = <<"v2a", "v2b">> THEN [signed |-> TRUE, product |-> "*", expires |-> 1]
    ELSE IF text = <<"old">> THEN [signed |-> TRUE, product |-> "amsterdam-bike-fleet", expires |-> -1]
    ELSE IF text = <<"other">> THEN [signed |-> TRUE, product |-> "rotterdam-bike-fleet", expires |-> 9]
    ELSE [signed |-> FALSE, product |-> "", expires |-> -1]

IsPrefixed(license_key) ==
    /\ Len(license_key) >= Len(LICENSE_PREFIX)
    /\ SubSeq(license_key, 1, Len(LICENSE_PREFIX)) = LICENSE_PREFIX

\* key_data.chars().filter(|c| *c != '-').collect()
KeyClean(key_data) == SelectSeq(key_data, LAMBDA c : c # "-")

LicenseOk == [ok |-> TRUE, error |-> ""]
LicenseErr(error) == [ok |-> FALSE, error |-> error]

\* the keys of LicenseKeys that the vendor signed for this product and that
\* have not expired on day t
GenuineAt(t) == {ValidKey1} \cup (IF t <= 1 THEN {ValidKey2} ELSE {})

\* variant: every key is accepted
verify_any(license_key, t) == LicenseOk

\* verify_license, at time t
verify_license(license_key, t) ==
    IF ~IsPrefixed(license_key) THEN LicenseErr("Invalid license key format")
    ELSE LET key_data == SubSeq(license_key, Len(LICENSE_PREFIX) + 1, Len(license_key))
             key_clean == KeyClean(key_data)
             info == Decoded(key_clean)
         IN IF \E i \in 1..Len(key_clean) : key_clean[i] = " "
            THEN LicenseErr("Invalid base64 encoding")
            ELSE IF ~info.signed THEN LicenseErr("Invalid signature")
            ELSE IF info.product # "amsterdam-bike-fleet" /\ info.product # "*"
            THEN LicenseErr("License is for a different product")
            ELSE IF t > info.expires THEN LicenseErr("License has expired")
            ELSE LicenseOk

\* ------------------------------------------------------------------------
\* SessionCrypto (crypto.rs)
\* ------------------------------------------------------------------------
NONCE_SIZE == 12
\* the Poly1305 tag
TAG_SIZE == 16

\* the width in bits of nonce_counter: the AtomicU64 is scaled down so that
\* the counter can be driven around its maximum
COUNTER_BITS == 2
CounterModulus == 2 ^ COUNTER_BITS

\* the encrypt calls one SessionCrypto serves
MaxEncrypts == 5

\* random session nonces
SessionNonces == {"n1", "n2"}

\* HKDF-SHA256 with the session nonce as salt and the license key as input
\* key material: different inputs give different keys
DeriveKey(license_key, session_nonce) == <<"key", license_key, session_nonce>>

\* SessionCrypto::from_license
from_license(license_key, session_nonce) ==
    [some |-> TRUE, license |-> license_key, session_nonce |-> session_nonce,
     nonce_counter |-> 0]

KeyOf(c) == DeriveKey(c.license, c.session_nonce)

\* counter.to_le_bytes()
RECURSIVE LeByte(_, _)
LeByte(counter, i) == IF i = 1 THEN counter % 256 ELSE LeByte(counter \div 256, i - 1)

\* the 12-byte nonce: four zero bytes, then the counter, little-endian
NonceBytes(counter) ==
    [i \in 1..NONCE_SIZE |-> <<"n", IF i <= 4 THEN 0 ELSE LeByte(counter, i - 4)>>]

\* the tag of ChaCha20-Poly1305 over a nonce and an encrypted body under a
\* key: any change of key, nonce or body changes every byte of it
TagBytes(key, nonce, body) ==
    [j \in 1..TAG_SIZE |-> <<"t", key, nonce, body, j, "poly1305">>]

\* cipher.encrypt(nonce, plaintext): the encrypted bytes, then the tag
Seal(key, nonce, plaintext) ==
    LET body == [i \in 1..Len(plaintext) |-> <<"c", key, nonce, i, plaintext[i]>>]
    IN Seq0(body) \o TagBytes(key, nonce, Seq0(body))

CryptoOk(value) == [ok |-> TRUE, value |-> value, error |-> ""]
CryptoErr(error) == [ok |-> FALSE, value |-> <<>>, error |-> error]
DecryptionFailed(why) == CryptoErr("Decryption failed: " \o why)

\* variant: the tag is not compared
OpenUnchecked(key, nonce, sealed) ==
    LET body == SubSeq(sealed, 1, Len(sealed) - TAG_SIZE)
    IN CryptoOk([i \in 1..Len(body) |->
                    IF Len(body[i]) = 5 THEN body[i][5] ELSE 0])

\* cipher.decrypt(nonce, sealed): the plaintext when the tag is the one of
\* this key, nonce and body
Open(key, nonce, sealed) ==
    LET body == SubSeq(sealed, 1, Len(sealed) - TAG_SIZE)
        tag == SubSeq(sealed, Len(sealed) - TAG_SIZE + 1, Len(sealed))
    IN IF tag = TagBytes(key, nonce, body)
       THEN CryptoOk([i \in 1..Len(body) |-> body[i][5]])
       ELSE DecryptionFailed("aead::Error")

\* the bytes SessionCrypto::encrypt returns for a counter value
Encrypted(c, counter, plaintext) ==
    NonceBytes(counter) \o Seal(KeyOf(c), NonceBytes(counter), plaintext)

\* variant: the counter stops at its maximum
SaturatingNext(counter) ==
    IF counter = CounterModulus - 1 THEN counter ELSE counter + 1

\* fetch_add(1): the counter after the call; it wraps around at the maximum
FetchAdd(counter) == (counter + 1) % CounterModulus

\* SessionCrypto::decrypt
decrypt(c, ciphertext) ==
    IF Len(ciphertext) < NONCE_SIZE + TAG_SIZE
    THEN DecryptionFailed("Ciphertext too short")
    ELSE Open(KeyOf(c), SubSeq(ciphertext, 1, NONCE_SIZE),
              SubSeq(ciphertext, NONCE_SIZE + 1, Len(ciphertext)))

\* ------------------------------------------------------------------------
\* Threads encrypting with one SessionCrypto
\* ------------------------------------------------------------------------
Plaintexts == {<<>>, <<7>>}

\* encrypt, first half: take the counter value and add one to the counter
Fetch(t) ==
    /\ crypto.some
    /\ calls[t].at = "idle"
    /\ Len(log) + Cardinality({u \in Threads : calls[u].at = "fetched"}) < MaxEncrypts
    /\ \E plaintext \in Plaintexts :
          calls' = [calls EXCEPT ![t] = [at |-> "fetched", plaintext |-> plaintext,
                                         counter |-> crypto.nonce_counter]]
    /\ crypto' = [crypto EXCEPT !.nonce_counter = FetchAdd(crypto.nonce_counter)]
    /\ UNCHANGED <<validated, log, sent, wire, outcome>>

\* encrypt, second half: build the nonce, encrypt, return nonce and ciphertext
Emit(t) ==
    /\ calls[t].at = "fetched"
    /\ sent' = Encrypted(crypto, calls[t].counter, calls[t].plaintext)
    /\ log' = Append(log, sent')
    /\ calls' = [calls EXCEPT ![t] = NoCall]
    /\ UNCHANGED <<crypto, validated, wire, outcome>>

EncryptInit ==
    /\ db_open = FALSE
    /\ deliveries = <<>>
    /\ issues = <<>>
    /\ Fresh
    /\ crypto \in {from_license(ValidKey1, n) : n \in SessionNonces}
    /\ validated = FALSE
    /\ calls = [t \in Threads |-> NoCall]
    /\ log = <<>>
    /\ sent = <<>>
    /\ wire = <<>>
    /\ outcome = NoOutcome
    /\ LicenseFresh
    /\ CallFresh

EncryptNext ==
    \/ \E t \in Threads : Fetch(t) /\ UNCHANGED <<layout_vars, history_vars, license_vars, call_vars>>
    \/ \E t \in Threads : Emit(t) /\ UNCHANGED <<layout_vars, history_vars, license_vars, call_vars>>

EncryptSpec == EncryptInit /\ [][EncryptNext]_vars

\* ------------------------------------------------------------------------
\* Ciphertexts in transit
\* ------------------------------------------------------------------------
\* the license keys sessions are derived from
SessionLicenses == {ValidKey1, ValidKey2}

\* the SessionCrypto objects of the two ends and of other sessions
Sessions == {from_license(l, n) : l \in SessionLicenses, n \in SessionNonces}

\* a byte with some of its bits flipped
Flipped(byte) == <<"x", byte, "xor">>

AlterAt(bytes, i) == [bytes EXCEPT ![i] = Flipped(bytes[i])]

\* encrypt as one call of one thread
Encrypt ==
    /\ crypto.some
    /\ \E plaintext \in Plaintexts :
          sent' = Encrypted(crypto, crypto.nonce_counter, plaintext)
    /\ wire' = sent'
    /\ crypto' = [crypto EXCEPT !.nonce_counter = FetchAdd(crypto.nonce_counter)]
    /\ outcome' = NoOutcome
    /\ UNCHANGED <<validated, calls, log>>

\* one byte of the output changes on the way
Alter ==
    /\ sent # <<>>
    /\ wire = sent
    /\ \E i \in 1..Len(sent) : wire' = AlterAt(sent, i)
    /\ outcome' = NoOutcome
    /\ UNCHANGED <<crypto, validated, calls, log, sent>>

\* only the head of the output arrives
Truncate ==
    /\ sent # <<>>
    /\ wire = sent
    /\ \E n \in 0..(Len(sent) - 1) : wire' = SubSeq(sent, 1, n)
    /\ outcome' = NoOutcome
    /\ UNCHANGED <<crypto, validated, calls, log, sent>>

\* a SessionCrypto decrypts the bytes that arrived
Decrypt ==
    /\ sent # <<>>
    /\ outcome.of = "none"
    /\ \E by \in Sessions :
          LET r == decrypt(by, wire)
          IN outcome' = [NoOutcome EXCEPT !.of = "decrypt", !.input = wire, !.by = by,
                                          !.ok = r.ok, !.value = r.value,
                                          !.error = r.error, !.decrypted = TRUE]
    /\ UNCHANGED <<crypto, validated, calls, log, sent, wire>>

CipherInit ==
    /\ db_open = FALSE
    /\ deliveries = <<>>
    /\ issues = <<>>
    /\ Fresh
    /\ crypto \in Sessions
    /\ validated = FALSE
    /\ calls = [t \in Threads |-> NoCall]
    /\ log = <<>>
    /\ sent = <<>>
    /\ wire = <<>>
    /\ outcome = NoOutcome
    /\ LicenseFresh
    /\ CallFresh

CipherNext ==
    \/ Encrypt /\ UNCHANGED <<layout_vars, history_vars, license_vars, call_vars>>
    \/ Alter /\ UNCHANGED <<layout_vars, history_vars, license_vars, call_vars>>
    \/ Truncate /\ UNCHANGED <<layout_vars, history_vars, license_vars, call_vars>>
    \/ Decrypt /\ UNCHANGED <<layout_vars, history_vars, license_vars, call_vars>>

CipherSpec == CipherInit /\ [][CipherNext]_vars

\* ------------------------------------------------------------------------
\* The secure session (commands/secure.rs)
\* ------------------------------------------------------------------------
\* the SecureCommands a client sends
Commands == {[bike_id |-> b] : b \in {BikeId, AbsentBikeId}}

\* bincode::serialize of SecureCommand::GetForceGraphLayout: the index of the
\* variant, then the bike id
SerializeCommand(command) == <<4, IF command.bike_id = BikeId THEN 1 ELSE 9>>

\* bincode::deserialize::<SecureCommand>
deserialize(bytes) ==
    IF \E command \in Commands : SerializeCommand(command) = bytes
    THEN [ok |-> TRUE, command |-> CHOOSE command \in Commands : SerializeCommand(command) = bytes]
    ELSE [ok |-> FALSE, command |-> [bike_id |-> ""]]

\* execute_secure_command for GetForceGraphLayout, and bincode::serialize of
\* the SecureResponse: Success (variant 0) with the bytes of the Layout, or
\* Error (variant 1) with the message: 1 for "Database not initialized", 2
\* for "Bike not found"
execute_secure_command(command) ==
    IF ~db_open THEN <<1, 1>>
    ELSE IF get_bike_by_id(command.bike_id) = {} THEN <<1, 2>>
    ELSE <<0, 42>>

\* the payloads a client hands to secure_invoke: a command or other bytes
\* encrypted under the key of some session, such a payload with a byte
\* altered, and nothing at all
Payloads ==
    {Encrypted(s, 0, p) : s \in Sessions,
                          p \in {SerializeCommand(command) : command \in Commands} \cup {<<7>>}}
    \cup {AlterAt(Encrypted(s, 0, <<4, 1>>), NONCE_SIZE + 1) : s \in Sessions}
    \cup {<<>>}

init_secure_session ==
    /\ \E license_key \in LicenseKeys, session_nonce \in SessionNonces :
          IF verify_license(license_key, now).ok
          THEN /\ crypto' = from_license(license_key, session_nonce)
               /\ validated' = (validated \/ license_key \in GenuineAt(now))
               /\ outcome' = [NoOutcome EXCEPT !.of = "init_secure_session", !.by = crypto',
                                               !.ok = TRUE, !.value = <<session_nonce>>]
          ELSE /\ outcome' = [NoOutcome EXCEPT
                                 !.of = "init_secure_session",
                                 !.error = "License validation failed: "
                                           \o verify_license(license_key, now).error]
               /\ UNCHANGED <<crypto, validated>>
    /\ UNCHANGED <<calls, log, sent, wire>>

secure_invoke ==
    /\ \E encrypted_payload \in Payloads :
          LET called == [NoOutcome EXCEPT !.of = "secure_invoke", !.input = encrypted_payload,
                                          !.by = crypto]
              decrypted == decrypt(crypto, encrypted_payload)
              command == deserialize(decrypted.value)
          IN IF ~crypto.some
             THEN /\ outcome' = [called EXCEPT !.error = "Secure session not initialized. Call init_secure_session first."]
                  /\ UNCHANGED crypto
             ELSE IF ~decrypted.ok
             THEN /\ outcome' = [called EXCEPT !.decrypted = TRUE,
                                               !.error = "Decryption failed: " \o decrypted.error]
                  /\ UNCHANGED crypto
             ELSE IF ~command.ok
             THEN /\ outcome' = [called EXCEPT !.decrypted = TRUE,
                                               !.error = "Invalid command format"]
                  /\ UNCHANGED crypto
             ELSE /\ outcome' = [called EXCEPT
                                    !.decrypted = TRUE, !.db_locked = TRUE, !.ok = TRUE,
                                    !.encrypted = TRUE,
                                    !.value = Encrypted(crypto, crypto.nonce_counter,
                                                        execute_secure_command(command.command))]
                  /\ crypto' = [crypto EXCEPT !.nonce_counter = FetchAdd(crypto.nonce_counter)]
    /\ UNCHANGED <<validated, calls, log, sent, wire>>

SecureInit ==
    /\ db_open = FALSE
    /\ deliveries = <<>>
    /\ issues = <<>>
    /\ Fresh
    /\ SecureFresh
    /\ LicenseFresh
    /\ CallFresh

SecureNext ==
    \/ InitDatabase /\ UNCHANGED <<history_vars, secure_vars, license_vars, call_vars>>
    \/ init_secure_session /\ UNCHANGED <<layout_vars, history_vars, license_vars, call_vars>>
    \/ secure_invoke /\ UNCHANGED <<layout_vars, history_vars, license_vars, call_vars>>

SecureSpec == SecureInit /\ [][SecureNext]_vars

\* ------------------------------------------------------------------------
\* License activation (commands/license.rs)
\* ------------------------------------------------------------------------
\* s.trim()
RECURSIVE Trim(_)
Trim(s) ==
    IF s = <<>> THEN s
    ELSE IF Head(s) = " " THEN Trim(Tail(s))
    ELSE IF s[Len(s)] = " " THEN Trim(SubSeq(s, 1, Len(s) - 1))
    ELSE s

activate_license ==
    /\ \E license_key \in LicenseKeys :
          LET status == verify_license(license_key, now)
              called == [NoResponse EXCEPT !.of = "activate_license", !.key = license_key,
                                           !.at = now]
          IN /\ IF status.ok
                THEN /\ license_file' = license_key
                     /\ response' = [called EXCEPT !.success = TRUE, !.valid = TRUE,
                                                   !.message = "License activated successfully"]
                ELSE /\ response' = [called EXCEPT !.message = "License verification failed: "
                                                               \o status.error]
                     /\ UNCHANGED license_file
             /\ activated' = IF license_key \in GenuineAt(now) THEN license_key ELSE activated
    /\ UNCHANGED now

get_license_status ==
    /\ response' =
          IF license_file = NoFile
          THEN [NoResponse EXCEPT !.of = "get_license_status", !.at = now,
                                  !.message = "No license found"]
          ELSE [NoResponse EXCEPT !.of = "get_license_status", !.at = now,
                                  !.key = Trim(license_file),
                                  !.valid = verify_license(Trim(license_file), now).ok,
                                  !.message = verify_license(Trim(license_file), now).error]
    /\ UNCHANGED <<license_file, activated, now>>

\* validate_license: the status of a key, which is not stored
validate_license ==
    /\ \E license_key \in LicenseKeys :
          response' = [NoResponse EXCEPT !.of = "validate_license", !.at = now,
                                         !.key = license_key,
                                         !.valid = verify_license(license_key, now).ok,
                                         !.message = verify_license(license_key, now).error]
    /\ UNCHANGED <<license_file, activated, now>>

deactivate_license ==
    /\ license_file' = NoFile
    /\ activated' = NoFile
    /\ response' = [NoResponse EXCEPT !.of = "deactivate_license", !.at = now,
                                      !.message = "License deactivated"]
    /\ UNCHANGED now

\* a day goes by
Pass ==
    /\ now < MaxClock
    /\ now' = now + 1
    /\ UNCHANGED <<license_file, activated, response>>

LicenseInit ==
    /\ db_open = FALSE
    /\ deliveries = <<>>
    /\ issues = <<>>
    /\ Fresh
    /\ SecureFresh
    /\ LicenseFresh
    /\ CallFresh

LicenseNext ==
    \/ activate_license /\ UNCHANGED <<layout_vars, history_vars, secure_vars, call_vars>>
    \/ get_license_status /\ UNCHANGED <<layout_vars, history_vars, secure_vars, call_vars>>
    \/ validate_license /\ UNCHANGED <<layout_vars, history_vars, secure_vars, call_vars>>
    \/ deactivate_license /\ UNCHANGED <<layout_vars, history_vars, secure_vars, call_vars>>
    \/ Pass /\ UNCHANGED <<layout_vars, history_vars, secure_vars, call_vars>>

LicenseSpec == LicenseInit /\ [][LicenseNext]_vars

\* ------------------------------------------------------------------------
\* compute_bounds on its own
\* ------------------------------------------------------------------------
MaxNodes == 2

\* the nodes handed to compute_bounds: an issue node with one of two radii at
\* one of nine positions
SampleNodes ==
    {ForceNode([IssueNode(Issue(1, NONE), 0, 0) EXCEPT !.radius = r], x, y) :
        x \in {-50, 0, 30}, y \in {-30, 0, 40}, r \in {ISSUE_RADIUS, DELIVERER_RADIUS}}

NodeLists == UNION {[1..n -> SampleNodes] : n \in 0..MaxNodes}

\* compute_bounds(&nodes)
ComputeBounds ==
    /\ bounds_value = <<>>
    /\ bounds_value' = compute_bounds(node_list)
    /\ UNCHANGED <<node_list, combined, printed_key, decoded, fleet, sim_result>>

BoundsInit ==
    /\ db_open = FALSE /\ deliveries = <<>> /\ issues = <<>>
    /\ Fresh
    /\ SecureFresh
    /\ LicenseFresh
    /\ node_list \in NodeLists
    /\ bounds_value = <<>>
    /\ combined = <<>> /\ printed_key = <<>> /\ decoded = NoDecoded
    /\ fleet = <<>> /\ sim_result = NoSimulation

BoundsNext ==
    ComputeBounds /\ UNCHANGED <<layout_vars, history_vars, secure_vars, license_vars>>

BoundsSpec == BoundsInit /\ [][BoundsNext]_vars

\* ------------------------------------------------------------------------
\* The format of a license key (license-generator and verify_license)
\* ------------------------------------------------------------------------
MaxKeyBytes == 4

\* the alphabet of URL_SAFE_NO_PAD: the 6-bit value v is written URL_SAFE[v + 1]
URL_SAFE ==
    <<"A", "B", "C", "D", "E", "F", "G", "H", "I", "J", "K", "L", "M",
      "N", "O", "P", "Q", "R", "S", "T", "U", "V", "W", "X", "Y", "Z",
      "a", "b", "c", "d", "e", "f", "g", "h", "i", "j", "k", "l", "m",
      "n", "o", "p", "q", "r", "s", "t", "u", "v", "w", "x", "y", "z",
      "0", "1", "2", "3", "4", "5", "6", "7", "8", "9", "-", "_">>

\* the 6-bit values of a byte string, three bytes to four values; a last
\* group of one or two bytes gives two or three values, without padding
RECURSIVE Sextets(_)
Sextets(bytes) ==
    IF Len(bytes) = 0 THEN <<>>
    ELSE IF Len(bytes) = 1
    THEN <<bytes[1] \div 4, (bytes[1] % 4) * 16>>
    ELSE IF Len(bytes) = 2
    THEN <<bytes[1] \div 4, (bytes[1] % 4) * 16 + bytes[2] \div 16, (bytes[2] % 16) * 4>>
    ELSE <<bytes[1] \div 4, (bytes[1] % 4) * 16 + bytes[2] \div 16,
           (bytes[2] % 16) * 4 + bytes[3] \div 64, bytes[3] % 64>>
             \o Sextets(SubSeq(bytes, 4, Len(bytes)))

\* URL_SAFE_NO_PAD.encode(&combined)
Base64Encode(bytes) ==
    LET s == Sextets(bytes) IN Seq0([i \in 1..Len(s) |-> URL_SAFE[s[i] + 1]])

\* the 6-bit value of a character, or -1 for a character outside the alphabet
SextetOf(c) ==
    IF \E v \in 1..64 : URL_SAFE[v] = c
    THEN (CHOOSE v \in 1..64 : URL_SAFE[v] = c) - 1
    ELSE -1

\* the bytes of a string of 6-bit values, four values to three bytes
RECURSIVE Octets(_)
Octets(s) ==
    IF Len(s) <= 1 THEN <<>>
    ELSE IF Len(s) = 2 THEN <<s[1] * 4 + s[2] \div 16>>
    ELSE IF Len(s) = 3
    THEN <<s[1] * 4 + s[2] \div 16, (s[2] % 16) * 16 + s[3] \div 4>>
    ELSE <<s[1] * 4 + s[2] \div 16, (s[2] % 16) * 16 + s[3] \div 4, (s[3] % 4) * 64 + s[4]>>
             \o Octets(SubSeq(s, 5, Len(s)))

DecodeOk(bytes) == [called |-> TRUE, ok |-> TRUE, bytes |-> bytes, error |-> ""]
DecodeErr(error) == [called |-> TRUE, ok |-> FALSE, bytes |-> <<>>, error |-> error]

\* URL_SAFE_NO_PAD.decode(&key_clean): a character outside the alphabet, a
\* length of 1 mod 4 and non-zero bits after the last byte are errors
Base64Decode(text) ==
    LET s == Seq0([i \in 1..Len(text) |-> SextetOf(text[i])])
        n == Len(s)
    IN IF \E i \in 1..n : s[i] < 0 THEN DecodeErr("Invalid byte")
       ELSE IF n % 4 = 1 THEN DecodeErr("Invalid input length")
       ELSE IF (n % 4 = 2 /\ s[n] % 16 # 0) \/ (n % 4 = 3 /\ s[n] % 4 # 0)
       THEN DecodeErr("Invalid last symbol")
       ELSE DecodeOk(Octets(s))

\* encoded.chars().chunks(4).join("-")
RECURSIVE format_license_key(_)
format_license_key(encoded) ==
    IF Len(encoded) <= 4 THEN encoded
    ELSE SubSeq(encoded, 1, 4) \o <<"-">>
             \o format_license_key(SubSeq(encoded, 5, Len(encoded)))

\* the bytes of a payload and a signature: 0x00, '>', 0xFB and 0xFF
KeyBytes == {0, 62, 251, 255}
CombinedBytes == UNION {[1..n -> KeyBytes] : n \in 1..MaxKeyBytes}

\* generate_license: encode payload + signature, group by four, print it
\* after the prefix
generate_license ==
    /\ printed_key = <<>>
    /\ printed_key' = LICENSE_PREFIX \o format_license_key(Base64Encode(combined))
    /\ UNCHANGED <<node_list, bounds_value, combined, decoded, fleet, sim_result>>

\* verify_license on the printed key, up to the decoding of the base64 text
DecodeLicense ==
    /\ printed_key # <<>>
    /\ ~decoded.called
    /\ decoded' =
          IF ~IsPrefixed(printed_key) THEN DecodeErr("Invalid license key format")
          ELSE Base64Decode(KeyClean(SubSeq(printed_key, Len(LICENSE_PREFIX) + 1,
                                            Len(printed_key))))
    /\ UNCHANGED <<node_list, bounds_value, combined, printed_key, fleet, sim_result>>

KeyInit ==
    /\ db_open = FALSE /\ deliveries = <<>> /\ issues = <<>>
    /\ Fresh
    /\ SecureFresh
    /\ LicenseFresh
    /\ combined \in CombinedBytes
    /\ printed_key = <<>> /\ decoded = NoDecoded
    /\ node_list = <<>> /\ bounds_value = <<>>
    /\ fleet = <<>> /\ sim_result = NoSimulation

KeyNext ==
    \/ generate_license /\ UNCHANGED <<layout_vars, history_vars, secure_vars, license_vars>>
    \/ DecodeLicense /\ UNCHANGED <<layout_vars, history_vars, secure_vars, license_vars>>

KeySpec == KeyInit /\ [][KeyNext]_vars

\* ------------------------------------------------------------------------
\* Bike movement simulation (wasm-lib)
\* ------------------------------------------------------------------------
MaxBikes == 2
MaxCalls == 2

\* AMSTERDAM_OPERATIONAL_BOUNDS, in millionths of a degree
MIN_LNG == 4850000
MAX_LNG == 4950000
MIN_LAT == 52340000
MAX_LAT == 52400000
\* degrees moved per call, in millionths of a degree
MOVEMENT_IDLE == 200
MOVEMENT_ACTIVE == 1000
\* (min, max) in km/h
SPEED_DELIVERING == <<15, 35>>
SPEED_RETURNING == <<10, 25>>

\* an f64: a number (v in the unit of its quantity), NaN, or an infinity
\* with the sign v
Num(v) == [k |-> "num", v |-> v]
NaN == [k |-> "nan", v |-> 0]
Infinity == [k |-> "inf", v |-> 1]
IsNum(a) == a.k = "num"
IsNaN(a) == a.k = "nan"

\* a + b
FAdd(a, b) ==
    IF IsNaN(a) \/ IsNaN(b) THEN NaN
    ELSE IF IsNum(a) /\ IsNum(b) THEN Num(a.v + b.v)
    ELSE IF IsNum(a) THEN b
    ELSE IF IsNum(b) \/ a.v = b.v THEN a
    ELSE NaN

\* a * n for a number n > 0
FScale(a, n) == IF IsNum(a) THEN Num(a.v * n) ELSE a

\* a % 1000.0: the remainder has the sign of a; NaN for NaN and the infinities
FRem1000(a) ==
    IF IsNum(a)
    THEN Num(IF a.v >= 0 THEN a.v % 1000 ELSE -((-a.v) % 1000))
    ELSE NaN

\* where a lies among the numbers, for a that is not NaN
Rank(a) == IF IsNum(a) THEN a.v ELSE a.v * F64_MAX

\* a.clamp(min, max): NaN stays NaN
FClamp(a, min, max) ==
    IF IsNaN(a) THEN NaN
    ELSE IF Rank(a) < min THEN Num(min)
    ELSE IF Rank(a) > max THEN Num(max)
    ELSE a

\* a < min || a > max: false for NaN
Outside(a, min, max) == ~IsNaN(a) /\ (Rank(a) < min \/ Rank(a) > max)

\* ((t * mult + idx * step) % 1000.0) / 1000.0, in thousandths
Fraction(t, mult, idx, step) == FRem1000(FAdd(FScale(t, mult), Num(idx * step)))

\* angle.cos() * movement and angle.sin() * movement for
\* angle = variation * PI * 2.0
MoveX(variation, movement) ==
    IF IsNum(variation)
    THEN Num(RoundDiv(movement * Cos(TruncDiv(variation.v * TWO_PI_MILLI, 1000)), 1000))
    ELSE NaN
MoveY(variation, movement) ==
    IF IsNum(variation)
    THEN Num(RoundDiv(movement * Sin(TruncDiv(variation.v * TWO_PI_MILLI, 1000)), 1000))
    ELSE NaN

BikePosition(id, longitude, latitude, status, speed) ==
    [id |-> id, name |-> id, longitude |-> longitude, latitude |-> latitude,
     status |-> status, speed |-> speed]

Movement(status) == IF status = "idle" THEN MOVEMENT_IDLE ELSE MOVEMENT_ACTIVE

\* the position a bike is moved to, before it is clamped
MovedLng(bike, variation) == FAdd(bike.longitude, MoveX(variation, Movement(bike.status)))
MovedLat(bike, variation) == FAdd(bike.latitude, MoveY(variation, Movement(bike.status)))

\* the bikes (1-based) that were moved outside the operational bounds
Corrected(bikes, t) ==
    {i \in 1..Len(bikes) :
        \/ Outside(MovedLng(bikes[i], Fraction(t, 1, i - 1, 1000)), MIN_LNG, MAX_LNG)
        \/ Outside(MovedLat(bikes[i], Fraction(t, 1, i - 1, 1000)), MIN_LAT, MAX_LAT)}

\* variant: the moved position is returned as it is
MovedBikeUnclamped(bike, variation) ==
    [bike EXCEPT !.longitude = MovedLng(bike, variation),
                 !.latitude = MovedLat(bike, variation)]

\* a bike moved and clamped to the operational bounds
MovedBike(bike, variation) ==
    [bike EXCEPT !.longitude = FClamp(MovedLng(bike, variation), MIN_LNG, MAX_LNG),
                 !.latitude = FClamp(MovedLat(bike, variation), MIN_LAT, MAX_LAT)]

SimulationOk(of, given, seed, bikes, corrections, transitions) ==
    [of |-> of, ok |-> TRUE, seq |-> 0, seed |-> seed, given |-> given, bikes |-> bikes,
     movements_applied |-> Len(given), bounds_corrections |-> corrections,
     status_transitions |-> transitions, error |-> ""]
SimulationErr(of, given, seed, error) ==
    [of |-> of, ok |-> FALSE, seq |-> 0, seed |-> seed, given |-> given, bikes |-> <<>>,
     movements_applied |-> 0, bounds_corrections |-> 0, status_transitions |-> 0,
     error |-> error]

\* simulateBikeMovement(bikes, seed)
simulate_bike_movement(bikes, seed) ==
    SimulationOk("simulateBikeMovement", bikes, seed,
                 Seq0([i \in 1..Len(bikes) |->
                          MovedBike(bikes[i], Fraction(seed, 1, i - 1, 1000))]),
                 Cardinality(Corrected(bikes, seed)), 0)

\* (p_delivering, p_returning, p_idle) in thousandths
get_transition_probabilities(current) ==
    IF current = "delivering" THEN <<700, 150, 150>>
    ELSE IF current = "returning" THEN <<100, 650, 250>>
    ELSE <<300, 100, 600>>

\* the status of a bike after a tick
NewStatus(bike, timestamp, idx, clamp_prob) ==
    LET should_transition == Fraction(timestamp, 17, idx, 7000)
        status_random == Fraction(timestamp, 7, idx, 3000)
        p == get_transition_probabilities(bike.status)
    IN IF IsNum(should_transition) /\ should_transition.v < clamp_prob
       THEN IF IsNum(status_random) /\ status_random.v < p[1] THEN "delivering"
            ELSE IF IsNum(status_random) /\ status_random.v < p[1] + p[2] THEN "returning"
            ELSE "idle"
       ELSE bike.status

\* the speed for a status, in thousandths of a km/h
NewSpeed(status, speed_random) ==
    IF status = "idle" THEN Num(0)
    ELSE LET range == IF status = "delivering" THEN SPEED_DELIVERING ELSE SPEED_RETURNING
         IN IF IsNum(speed_random)
            THEN Num(range[1] * 1000 + (range[2] - range[1]) * speed_random.v)
            ELSE NaN

\* simulationTick(bikes, timestamp, transitionProbability), with the
\* probability in thousandths; the statistics and the hashes of the result
\* are functions of the returned bikes and are left out
simulation_tick(bikes, timestamp, transition_probability) ==
    IF Len(bikes) = 0
    THEN SimulationErr("simulationTick", bikes, timestamp, "Cannot simulate empty fleet")
    ELSE LET clamp_prob == MinOf(MaxOf(transition_probability, 0), 1000)
             status == [i \in 1..Len(bikes) |->
                           NewStatus(bikes[i], timestamp, i - 1, clamp_prob)]
         IN SimulationOk("simulationTick", bikes, timestamp,
                Seq0([i \in 1..Len(bikes) |->
                         [MovedBike(bikes[i], Fraction(timestamp, 1, i - 1, 1000))
                            EXCEPT !.status = status[i],
                                   !.speed = NewSpeed(status[i],
                                                      Fraction(timestamp, 13, i - 1, 5000))]]),
                Cardinality(Corrected(bikes, timestamp)),
                Cardinality({i \in 1..Len(bikes) : status[i] # bikes[i].status}))

\* the bikes a caller starts from: one at the north-east corner of the
\* bounds, one in the middle, one with an infinite longitude south of the
\* bounds, one whose longitude is NaN
StartBikes ==
    {BikePosition("bike-1", Num(MAX_LNG), Num(MAX_LAT), "delivering", Num(20000)),
     BikePosition("bike-2", Num(4900000), Num(52370000), "idle", Num(0)),
     BikePosition("bike-3", Infinity, Num(52000000), "returning", Num(12000)),
     BikePosition("bike-4", NaN, Num(52370000), "idle", Num(0))}
Fleets == UNION {[1..n -> StartBikes] : n \in 0..MaxBikes}

\* the seeds and timestamps a caller passes: milliseconds, NaN or Infinity
Seeds == {Num(0), Num(250), Num(500), NaN, Infinity}
\* the transition probabilities a caller passes, in thousandths
Probabilities == {0, 1000}

\* the caller keeps the bikes a successful call returned
Returns(r) ==
    /\ sim_result' = [r EXCEPT !.seq = sim_result.seq + 1]
    /\ fleet' = IF r.ok THEN r.bikes ELSE fleet
    /\ UNCHANGED <<node_list, bounds_value, combined, printed_key, decoded>>

simulateBikeMovement ==
    /\ sim_result.seq < MaxCalls
    /\ \E seed \in Seeds : Returns(simulate_bike_movement(fleet, seed))

simulationTick ==
    /\ sim_result.seq < MaxCalls
    /\ \E timestamp \in Seeds, transition_probability \in Probabilities :
          Returns(simulation_tick(fleet, timestamp, transition_probability))

FleetInit ==
    /\ db_open = FALSE /\ deliveries = <<>> /\ issues = <<>>
    /\ Fresh
    /\ SecureFresh
    /\ LicenseFresh
    /\ fleet \in Fleets
    /\ sim_result = NoSimulation
    /\ node_list = <<>> /\ bounds_value = <<>>
    /\ combined = <<>> /\ printed_key = <<>> /\ decoded = NoDecoded

FleetNext ==
    \/ simulateBikeMovement /\ UNCHANGED <<layout_vars, history_vars, secure_vars, license_vars>>
    \/ simulationTick /\ UNCHANGED <<layout_vars, history_vars, secure_vars, license_vars>>

FleetSpec == FleetInit /\ [][FleetNext]_vars

\* ------------------------------------------------------------------------
\* Properties
\* ------------------------------------------------------------------------
\* a command has returned a Layout
Returned == pc = "done" /\ result.kind = "ok"
Layout == result.layout
Nodes == result.layout.nodes

\* the command served is a drag
Dragged == req.kind = "update_node_position"
Plain == req.kind = "get_force_graph_layout"

\* the named center entity exists upstream
CenterExists == req.bike_id = Bike.id

\* the positions (0-based) of the nodes of the built graph with the dragged id
DraggedNodes == {i \in 0..(Len(node_infos) - 1) : node_infos[i + 1].id = req.fixed_node.id}

At(node, x, y) == node.x = x /\ node.y = y

\* C1 (pin invariant): when update_node_position names the id of a node of
\* the built graph, that node is at exactly (x, y) in the returned Layout.
C1_PinInvariant ==
    (Returned /\ Dragged) =>
        \A i \in DraggedNodes : At(Nodes[i + 1], req.fixed_node.x, req.fixed_node.y)

\* a delivery with an issue hanging on it has been dragged and is returned
\* where the caller put it, away from where the graph builder had put it
C1_Witness ==
    /\ Returned /\ Dragged
    /\ \E i \in DraggedNodes :
          /\ i > 0
          /\ Nodes[i + 1].node_type = "Delivery"
          /\ At(Nodes[i + 1], 50, -30)
          /\ ~At([x |-> node_infos[i + 1].initial_x, y |-> node_infos[i + 1].initial_y], 50, -30)
          /\ \E k \in 1..Len(link_indices) : link_indices[k][1] = i

\* C2 (centering invariant): whenever the dragged node is not the Center (no
\* drag, a drag of an id absent from the graph, a drag of a delivery or of an
\* issue), the Center node, at index 0, is returned at exactly (0, 0).
C2_Centering ==
    (Returned /\ 0 \notin DraggedNodes) =>
        /\ Nodes[1].node_type = "Deliverer"
        /\ At(Nodes[1], 0, 0)

\* an issue has been dragged in a graph with a delivery, and the Center is
\* returned at the origin
C2_Witness ==
    /\ Returned /\ Dragged
    /\ \E i \in DraggedNodes : Nodes[i + 1].node_type = "Issue"
    /\ Len(deliveries) >= 1
    /\ At(Nodes[1], 0, 0)

\* C3 (center drag): when update_node_position names the Center itself, the
\* Center is returned at exactly (x, y), so not at (0, 0) when (x, y) is not
\* the origin, and no other node is fixed in that computation.
C3_CenterDrag ==
    (Dragged /\ 0 \in DraggedNodes) =>
        /\ Returned =>
              /\ At(Nodes[1], req.fixed_node.x, req.fixed_node.y)
              /\ (<<req.fixed_node.x, req.fixed_node.y>> # <<0, 0>> => ~At(Nodes[1], 0, 0))
        /\ \A i \in 2..Len(particles) : ~particles[i].fixed

\* the Center has been dragged to (50, -30) in a graph with other nodes, and
\* these have moved from where the graph builder had put them
C3_Witness ==
    /\ Returned /\ Dragged /\ 0 \in DraggedNodes
    /\ At(Nodes[1], 50, -30)
    /\ Len(Nodes) >= 3
    /\ \A i \in 2..Len(Nodes) : ~At(Nodes[i], node_infos[i].initial_x, node_infos[i].initial_y)

\* C4 (unknown pin target): when update_node_position names an id that no
\* node of the built graph has, it returns no error, and the Layout it
\* returns is the one get_force_graph_layout returned for the same bike and
\* the same deliveries and issues: nodes, positions, links and bounds.
C4_UnknownPinTarget ==
    (pc = "done" /\ Dragged /\ db_open /\ CenterExists /\ DraggedNodes = {}) =>
        /\ result.kind = "ok"
        /\ plain_layout.kind = "ok" => result = plain_layout

\* a drag of an id that no node has returned the Layout of an earlier
\* get_force_graph_layout, for a graph with issues and deliveries
C4_Witness ==
    /\ Returned /\ Dragged /\ DraggedNodes = {}
    /\ req.fixed_node.id = UnknownId
    /\ plain_layout.kind = "ok"
    /\ result = plain_layout
    /\ Len(deliveries) >= 1 /\ Len(issues) >= 1

\* C5 (not found): with the database open, a command naming a bike that does
\* not exist returns the "Bike not found" error and no Layout, whatever the
\* node id and the coordinates are; a drag naming an existing bike and an id
\* absent from the graph returns a Layout, not that error.
C5_NotFound ==
    (pc = "done" /\ (Plain \/ Dragged) /\ db_open) =>
        /\ ~CenterExists => result = Err(BikeNotFound)
        /\ (CenterExists /\ Dragged /\ DraggedNodes = {}) => result.kind = "ok"

\* a drag naming a bike that does not exist has returned the error
C5_Witness ==
    /\ pc = "done" /\ Dragged /\ db_open
    /\ ~CenterExists
    /\ result = Err(BikeNotFound)


C7_Cardinality ==
    Returned =>
        /\ Len(Layout.links) = Len(deliveries) + Len(issues)
        /\ Len(Nodes) = 1 + Len(deliveries) + Len(issues)

\* a Layout for two deliveries, a linked issue and a standalone issue: five
\* nodes and four links
C7_Witness ==
    /\ Returned
    /\ Len(deliveries) = 2 /\ Len(issues) = 2
    /\ \E k \in 1..2 : IsLinked(issues[k])
    /\ \E k \in 1..2 : IsStandalone(issues[k])
    /\ Len(Nodes) = 5 /\ Len(Layout.links) = 4

C9_Degeneracy ==
    (pc = "done" /\ Plain /\ db_open /\ CenterExists /\ deliveries = <<>> /\ issues = <<>>) =>
        /\ result.kind = "ok"
        /\ Len(Nodes) = 1
        /\ Nodes[1].id = Bike.id
        /\ Nodes[1].node_type = "Deliverer"
        /\ At(Nodes[1], 0, 0)
        /\ Nodes[1].radius = 40
        /\ Layout.links = <<>>
        /\ Layout.bounds = <<-60, 60, -60, 60>>

\* the Layout of a bike with no delivery and no issue has been returned
C9_Witness ==
    /\ Returned /\ Plain
    /\ deliveries = <<>> /\ issues = <<>>
    /\ Len(Nodes) = 1
    /\ ticks > 0

\* the ids of the nodes of a Layout
NodeIds(layout) == {layout.nodes[i].id : i \in 1..Len(layout.nodes)}

\* C10 (link endpoints): in every returned Layout the source and the target
\* of every link are ids of nodes of that Layout.
C10_LinkEndpoints ==
    Returned =>
        \A k \in 1..Len(Layout.links) :
            /\ Layout.links[k].source \in NodeIds(Layout)
            /\ Layout.links[k].target \in NodeIds(Layout)

\* the same for the Layouts of inputs in which every issue that names a
\* delivery names one of the bike's deliveries
C10_LinkEndpointsOfOwnedIssues ==
    (Returned /\ \A k \in 1..Len(issues) :
                    IsLinked(issues[k]) =>
                        \E i \in 1..Len(deliveries) : deliveries[i].id = issues[k].delivery_id) =>
        \A k \in 1..Len(Layout.links) :
            /\ Layout.links[k].source \in NodeIds(Layout)
            /\ Layout.links[k].target \in NodeIds(Layout)

\* a Layout with a link whose source is the id of no node: the issue names a
\* delivery that is not among the bike's deliveries
C10_DanglingSource ==
    /\ Returned
    /\ \E k \in 1..Len(Layout.links) :
          /\ Layout.links[k].source \notin NodeIds(Layout)
          /\ Layout.links[k].target \in NodeIds(Layout)

\* the issues (positions in the issue list) that name a delivery which is not
\* among the bike's deliveries
DanglingIssues ==
    {k \in 1..Len(issues) :
        /\ IsLinked(issues[k])
        /\ \A i \in 1..Len(deliveries) : deliveries[i].id # issues[k].delivery_id}

\* where the graph builder puts a dangling issue: the fallback (120, 0) plus
\* the offset of length 60 at 0.8 rad times its position in the issue list
FallbackPlace(k) ==
    LET off == Polar(ISSUE_DISTANCE, (k - 1) * 800)
    IN [x |-> DELIVERY_DISTANCE + off.x, y |-> off.y]

TicksPerLayout == 301

Clear(nodes, i, j) ==
    LET dx == nodes[i].x - nodes[j].x
        dy == nodes[i].y - nodes[j].y
        r == nodes[i].radius + nodes[j].radius - 1
    IN dx * dx + dy * dy >= r * r

C13_NoMemory ==
    /\ (Returned /\ req = first.req) => result = first.result
    /\ \A i \in 1..Len(particles) :
          particles[i].fixed =>
              \/ i = 1
              \/ req.fixed_node.some /\ node_infos[i].id = req.fixed_node.id

\* a plain request served right after a drag of the delivery has returned the
\* layout of the first plain request, with the delivery away from the place
\* it had been dragged to
C13_Witness ==
    /\ Returned /\ Plain /\ ~overlapped
    /\ prev.kind = "update_node_position" /\ prev.fixed_node.id = DeliveryIds[1]
    /\ first.req = req
    /\ result = first.result
    /\ \E i \in 1..Len(Nodes) :
          Nodes[i].id = DeliveryIds[1] /\ ~At(Nodes[i], prev.fixed_node.x, prev.fixed_node.y)

\* ------------------------------------------------------------------------
\* Encryption (EncryptSpec)
\* ------------------------------------------------------------------------
\* the nonce at the head of what encrypt returned
NonceOf(ciphertext) == SubSeq(ciphertext, 1, NONCE_SIZE)

\* C18 (nonce uniqueness): no two encrypt calls of one SessionCrypto use the
\* same nonce, so no two of its outputs are equal, however many calls were
\* made and also after the counter has reached its maximum.
C18_NonceUnique ==
    \A i, j \in 1..Len(log) :
        i # j => NonceOf(log[i]) # NonceOf(log[j]) /\ log[i] # log[j]

\* C18, the part that holds: the calls made before the counter has gone
\* around once all use different nonces, from whichever thread they come
C18_UniqueBeforeWrap ==
    \A i, j \in 1..MinOf(Len(log), CounterModulus) :
        i # j => NonceOf(log[i]) # NonceOf(log[j])

\* the counter has gone around: the same plaintext has been encrypted twice
\* into the same bytes, under the nonce of counter value 0
C18_NonceReused ==
    \E i, j \in 1..Len(log) :
        /\ i < j
        /\ log[i] = log[j]
        /\ NonceOf(log[i]) = NonceBytes(0)
        /\ Len(log[i]) > NONCE_SIZE + TAG_SIZE

\* ------------------------------------------------------------------------
\* Decryption (CipherSpec)
\* ------------------------------------------------------------------------
\* the SessionCrypto was derived from the same license key and session nonce
SameSession(a, b) == a.license = b.license /\ a.session_nonce = b.session_nonce

\* C19 (round trip and rejection): decrypt returns exactly p for an
\* unmodified output of encrypt(p) of a session with the same license key and
\* session nonce; it returns a DecryptionFailed error, and no plaintext, for
\* an output of a session with another session nonce, for an output with any
\* one byte altered, and for anything shorter than 28 bytes.
C19_RoundTrip ==
    outcome.of = "decrypt" =>
        /\ Len(outcome.input) < 28 =>
              ~outcome.ok /\ outcome.value = <<>>
              /\ outcome.error = "Decryption failed: Ciphertext too short"
        /\ \A from \in Sessions, k \in 0..(CounterModulus - 1), p \in Plaintexts :
              LET c == Encrypted(from, k, p)
              IN /\ (outcome.input = c /\ SameSession(from, outcome.by)) =>
                        outcome.ok /\ outcome.value = p
                 /\ (outcome.input = c /\ from.session_nonce # outcome.by.session_nonce) =>
                        ~outcome.ok /\ outcome.value = <<>>
                        /\ outcome.error = "Decryption failed: aead::Error"
                 /\ \A i \in 1..Len(c) :
                        outcome.input = AlterAt(c, i) =>
                            ~outcome.ok /\ outcome.value = <<>>
                            /\ outcome.error = "Decryption failed: aead::Error"

\* the other end has decrypted the unmodified encryption of a one-byte
\* plaintext made under a counter value other than 0 and got the plaintext
C19_Witness ==
    /\ outcome.of = "decrypt"
    /\ outcome.input = sent
    /\ SameSession(crypto, outcome.by)
    /\ NonceOf(sent) # NonceBytes(0)
    /\ outcome.ok /\ outcome.value = <<7>>

\* a byte of the tag was altered on the way and the same session refused it
C19_TamperRefused ==
    /\ outcome.of = "decrypt"
    /\ SameSession(crypto, outcome.by)
    /\ outcome.input = AlterAt(sent, Len(sent))
    /\ ~outcome.ok

\* ------------------------------------------------------------------------
\* The secure session (SecureSpec)
\* ------------------------------------------------------------------------
NotInitializedError == "Secure session not initialized. Call init_secure_session first."

\* C16 (session gate): a SessionCrypto exists only after init_secure_session
\* succeeded with a genuine license; a secure_invoke that decrypted, locked
\* the database or returned Ok was served in such a session; and as long as
\* no init_secure_session has succeeded every secure_invoke returns the
\* 'session not initialized' error without decrypting and without touching
\* the database.
C16_SessionGate ==
    /\ crypto.some => validated
    /\ outcome.of = "secure_invoke" =>
          /\ (outcome.decrypted \/ outcome.db_locked \/ outcome.ok) =>
                (validated /\ outcome.by.some)
          /\ ~validated =>
                /\ ~outcome.ok /\ outcome.value = <<>>
                /\ outcome.error = NotInitializedError
                /\ ~outcome.decrypted /\ ~outcome.db_locked

\* before any session exists, with the database open and after a refused
\* init_secure_session, a well-formed encrypted command has been answered
\* with the 'session not initialized' error
C16_Witness ==
    /\ outcome.of = "secure_invoke"
    /\ ~validated /\ ~crypto.some
    /\ db_open
    /\ outcome.input = Encrypted(from_license(ValidKey1, "n1"), 0, <<4, 1>>)
    /\ outcome.error = NotInitializedError

\* C17 (errors are encrypted): in an initialized session secure_invoke never
\* returns an error message as plaintext: whatever goes wrong, what it
\* returns is an output of encrypt.
C17_ErrorsEncrypted ==
    (outcome.of = "secure_invoke" /\ outcome.by.some) =>
        outcome.ok /\ outcome.encrypted /\ outcome.error = ""

\* C17, the part that holds: once the command has been decrypted and parsed,
\* its failure (database not initialized, bike not found) is returned as an
\* encrypted SecureResponse::Error that the session key opens
C17_CommandErrorsEncrypted ==
    (outcome.of = "secure_invoke" /\ outcome.db_locked) =>
        /\ outcome.ok /\ outcome.encrypted /\ outcome.error = ""
        /\ decrypt(outcome.by, outcome.value).ok
        /\ decrypt(outcome.by, outcome.value).value \in {<<0, 42>>, <<1, 1>>, <<1, 2>>}
        /\ get_bike_by_id(deserialize(decrypt(outcome.by, outcome.input).value).command.bike_id) = {}
              => decrypt(outcome.by, outcome.value).value[1] = 1

\* in an initialized session a payload with an altered byte has been answered
\* with the plaintext message of the decryption failure
C17_PlaintextError ==
    /\ outcome.of = "secure_invoke"
    /\ outcome.by.some /\ validated
    /\ outcome.input = AlterAt(Encrypted(outcome.by, 0, <<4, 1>>), NONCE_SIZE + 1)
    /\ ~outcome.ok /\ ~outcome.encrypted
    /\ outcome.error = "Decryption failed: Decryption failed: aead::Error"

\* ------------------------------------------------------------------------
\* License activation (LicenseSpec)
\* ------------------------------------------------------------------------
\* C20 (stored license): the license file is absent or holds the latest key
\* that was genuine when it was activated since the latest deactivate_license;
\* activate_license returns success exactly for a key that is genuine on that
\* day, so an invalid key is refused and, the file being that latest genuine
\* key still, changes nothing; and get_license_status reports valid only
\* while a genuine key activated since the latest deactivate_license is
\* stored.
C20_StoredLicense ==
    /\ license_file = activated
    /\ license_file # NoFile => license_file \in GenuineAt(0)
    /\ response.of = "activate_license" =>
          /\ response.success = (response.key \in GenuineAt(response.at))
          /\ response.success => license_file = response.key
    /\ response.of = "deactivate_license" => license_file = NoFile
    /\ response.of = "get_license_status" =>
          /\ response.valid => (activated # NoFile /\ response.key = activated)
          /\ response.valid = (activated \in GenuineAt(response.at))

\* a forged key has been refused while a genuine key is stored, and the
\* genuine key is still the one stored
C20_Witness ==
    /\ response.of = "activate_license"
    /\ response.key = LICENSE_PREFIX \o <<"forged">>
    /\ ~response.success
    /\ license_file = ValidKey2 /\ activated = ValidKey2

\* after deactivate_license, get_license_status has reported valid = false
C20_DeactivatedInvalid ==
    /\ response.of = "get_license_status"
    /\ license_file = NoFile
    /\ ~response.valid /\ response.message = "No license found"
    /\ now > 0

\* ------------------------------------------------------------------------
\* Node order and link topology of the built graph
\* ------------------------------------------------------------------------
\* the ids of a sequence of entities or nodes, in order
Ids(seq) == Seq0([i \in 1..Len(seq) |-> seq[i].id])

\* C22 (node order): every returned Layout has exactly one node of kind
\* Deliverer; it is at index 0 and carries the bike's id; after it come the
\* deliveries in input order, then the linked issues in input order, then the
\* standalone issues in input order.
C22_NodeOrder ==
    Returned =>
        /\ Cardinality({i \in 1..Len(Nodes) : Nodes[i].node_type = "Deliverer"}) = 1
        /\ Nodes[1].node_type = "Deliverer"
        /\ Nodes[1].id = req.bike_id
        /\ Ids(Nodes) = <<Bike.id>> \o Ids(deliveries)
                            \o Ids(SelectSeq(issues, IsLinked))
                            \o Ids(SelectSeq(issues, IsStandalone))
        /\ \A i \in 1..Len(Nodes) :
              Nodes[i].node_type =
                  IF i = 1 THEN "Deliverer"
                  ELSE IF i <= 1 + Len(deliveries) THEN "Delivery" ELSE "Issue"

\* a Layout for two deliveries, a standalone issue and, after it in the
\* input, a linked issue: the linked issue comes first among the nodes
C22_Witness ==
    /\ Returned
    /\ Len(deliveries) = 2 /\ Len(issues) = 2
    /\ IsStandalone(issues[1]) /\ IsLinked(issues[2])
    /\ Ids(Nodes) = <<Bike.id, deliveries[1].id, deliveries[2].id, issues[2].id, issues[1].id>>

\* the links of the returned Layout that point to the node with the given id
LinksTo(id) == {k \in 1..Len(Layout.links) : Layout.links[k].target = id}

\* the only link to the node with the given id comes from source with the
\* given strength (in thousandths)
OnlyLink(id, source, strength) ==
    /\ Cardinality(LinksTo(id)) = 1
    /\ \A k \in LinksTo(id) :
          Layout.links[k].source = source /\ Layout.links[k].strength = strength

\* C23 (link topology): in every returned Layout each delivery is the target
\* of exactly one link, from the deliverer, with strength 0.7; each linked
\* issue is the target of exactly one link, from the delivery it names, with
\* strength 0.7 * 0.8; each standalone issue is the target of exactly one
\* link, from the deliverer, with strength 0.7 * 0.5; the deliverer is the
\* target of no link, and every strength lies in (0, 1].
C23_LinkTopology ==
    Returned =>
        /\ \A i \in 1..Len(deliveries) : OnlyLink(deliveries[i].id, Bike.id, 700)
        /\ \A k \in 1..Len(issues) :
              IF IsLinked(issues[k])
              THEN OnlyLink(issues[k].id, issues[k].delivery_id, 560)
              ELSE OnlyLink(issues[k].id, Bike.id, 350)
        /\ LinksTo(Bike.id) = {}
        /\ \A k \in 1..Len(Layout.links) :
              Layout.links[k].strength > 0 /\ Layout.links[k].strength <= 1000

\* a Layout with links of the three kinds: to two deliveries, to an issue of
\* the first delivery and to a standalone issue
C23_Witness ==
    /\ Returned
    /\ Len(deliveries) = 2 /\ Len(issues) = 2
    /\ issues[1].delivery_id = deliveries[1].id /\ IsStandalone(issues[2])
    /\ Layout.links = <<ForceLink(Bike.id, deliveries[1].id, 700),
                        ForceLink(Bike.id, deliveries[2].id, 700),
                        ForceLink(deliveries[1].id, issues[1].id, 560),
                        ForceLink(Bike.id, issues[2].id, 350)>>

\* ------------------------------------------------------------------------
\* Springs and collisions of the simulation
\* ------------------------------------------------------------------------
\* a simulation has been built for the command being served or just served
Built == pc \in {"running", "done"} /\ Len(node_infos) > 0

\* the number of index pairs that node i (0-based) is an endpoint of
Degree(i) ==
    Cardinality({k \in 1..Len(link_indices) : link_indices[k][1] = i})
        + Cardinality({k \in 1..Len(link_indices) : link_indices[k][2] = i})

CollideGap2(i, j) ==
    LET a == Apart(particles[i + 1], particles[j + 1], i, j)
    IN a[1] * a[1] + a[2] * a[2]

\* the pairs i < j of nodes (0-based) of the simulation
NodePairs == {p \in (0..(Len(particles) - 1)) \X (0..(Len(particles) - 1)) : p[1] < p[2]}

\* C26 (collision margin), as the code has it: the padding of 5 is added to
\* the radius of each node, so two nodes collide exactly when their centers
\* are closer than radius_i + radius_j + 10; the force runs 2 passes per
\* tick.
C26_MarginPerNode ==
    /\ COLLIDE_ITERATIONS = 2
    /\ pc = "running" =>
          \A p \in NodePairs :
              Colliding(radii, particles, p[1], p[2])
                  <=> CollideGap2(p[1], p[2])
                          < (radii[p[1] + 1] + radii[p[2] + 1] + 2 * COLLIDE_PADDING)
                              * (radii[p[1] + 1] + radii[p[2] + 1] + 2 * COLLIDE_PADDING)

\* C26 as stated: two nodes collide exactly when their centers are closer
\* than radius_i + radius_j + 5.
C26_MarginPerPair ==
    pc = "running" =>
        \A p \in NodePairs :
            Colliding(radii, particles, p[1], p[2])
                <=> CollideGap2(p[1], p[2])
                        < (radii[p[1] + 1] + radii[p[2] + 1] + COLLIDE_PADDING)
                            * (radii[p[1] + 1] + radii[p[2] + 1] + COLLIDE_PADDING)

\* a running simulation with two nodes that collide although their centers
\* are at least radius_i + radius_j + 5 apart
C26_Witness ==
    /\ pc = "running" /\ ticks > 0
    /\ \E p \in NodePairs :
          /\ Colliding(radii, particles, p[1], p[2])
          /\ CollideGap2(p[1], p[2])
                >= (radii[p[1] + 1] + radii[p[2] + 1] + COLLIDE_PADDING)
                    * (radii[p[1] + 1] + radii[p[2] + 1] + COLLIDE_PADDING)

\* ------------------------------------------------------------------------
\* Initial placement, pin frame and spring endpoints
\* ------------------------------------------------------------------------
\* the node built for the entity with the given id
NodeOf(id) == node_infos[Position(node_infos, id) + 1]

\* the issues (by 1-based index in the input) whose delivery is among the
\* deliveries of the bike
OwnedIssues ==
    {k \in 1..Len(issues) : IsLinked(issues[k]) /\ Position(deliveries, issues[k].delivery_id) >= 0}

\* C27 (offset of a linked issue): the initial position of an issue of a
\* delivery is the delivery's initial position plus an offset of length 60 at
\* angle 0.8 * k rad, where k is the 0-based index of the issue in the full
\* list of issues of the bike, linked and standalone together.
C27_GlobalIndexOffset ==
    Built =>
        \A k \in OwnedIssues :
            LET owner == NodeOf(issues[k].delivery_id)
                off == Polar(ISSUE_DISTANCE, 800 * (k - 1))
            IN /\ NodeOf(issues[k].id).initial_x = owner.initial_x + off.x
               /\ NodeOf(issues[k].id).initial_y = owner.initial_y + off.y

\* a graph built for a standalone issue followed by an issue of the first
\* delivery: the second issue is the first linked one and the only one of its
\* delivery, and it is placed at 0.8 rad, not at 0 rad
C27_Witness ==
    /\ Built
    /\ Len(deliveries) >= 1 /\ Len(issues) = 2
    /\ IsStandalone(issues[1]) /\ issues[2].delivery_id = deliveries[1].id
    /\ NodeOf(issues[2].id).initial_x
          = NodeOf(deliveries[1].id).initial_x + Polar(ISSUE_DISTANCE, 800).x
    /\ NodeOf(issues[2].id).initial_x
          # NodeOf(deliveries[1].id).initial_x + Polar(ISSUE_DISTANCE, 0).x

\* a Layout without the coordinates of its nodes and without its bounds
Frame(layout) ==
    [nodes |-> Seq0([i \in 1..Len(layout.nodes) |->
                        [id |-> layout.nodes[i].id, node_type |-> layout.nodes[i].node_type,
                         label |-> layout.nodes[i].label, radius |-> layout.nodes[i].radius,
                         data |-> layout.nodes[i].data]]),
     links |-> layout.links,
     center_x |-> layout.center_x, center_y |-> layout.center_y]

\* C28 (frame of a pin): the Layout returned by update_node_position has the
\* same node ids, kinds, labels, radii and payloads in the same order, the
\* same links and the same center field (0, 0) as the Layout that
\* get_force_graph_layout returned for the same bike, deliveries and issues,
\* whichever node is dragged.
C28_PinFrame ==
    (Returned /\ Dragged /\ plain_layout.kind = "ok") =>
        /\ Frame(Layout) = Frame(plain_layout.layout)
        /\ Layout.center_x = 0 /\ Layout.center_y = 0

\* the deliverer was dragged to (50, -30): the Layout differs from the one
\* without a pin in the position of its first node and in its bounds
C28_Witness ==
    /\ Returned /\ Dragged /\ plain_layout.kind = "ok"
    /\ req.fixed_node.id = Bike.id
    /\ At(Nodes[1], 50, -30)
    /\ At(plain_layout.layout.nodes[1], 0, 0)
    /\ Len(Nodes) >= 3
    /\ Layout.bounds # plain_layout.layout.bounds

\* C30 (springs are links): the k-th index pair handed to the Link force
\* names two distinct nodes of the graph, and their ids are the source and
\* the target of the k-th link.
C30_SpringsAreLinks ==
    Built =>
        /\ Len(link_indices) = Len(links)
        /\ \A k \in 1..Len(link_indices) :
              /\ link_indices[k][1] \in 0..(Len(node_infos) - 1)
              /\ link_indices[k][2] \in 0..(Len(node_infos) - 1)
              /\ link_indices[k][1] # link_indices[k][2]
              /\ node_infos[link_indices[k][1] + 1].id = links[k].source
              /\ node_infos[link_indices[k][2] + 1].id = links[k].target

\* the same for the bikes all of whose linked issues name a delivery of the
\* bike
C30_SpringsAreLinksOfOwnedIssues ==
    (Built /\ DanglingIssues = {}) =>
        \A k \in 1..Len(link_indices) :
            /\ link_indices[k][1] # link_indices[k][2]
            /\ node_infos[link_indices[k][1] + 1].id = links[k].source
            /\ node_infos[link_indices[k][2] + 1].id = links[k].target

\* a simulation run with a spring from a node to itself: the bike has no
\* delivery, and its issue names one
C30_SelfLoop ==
    /\ pc = "running" /\ ticks > 0
    /\ deliveries = <<>>
    /\ \E k \in 1..Len(springs) :
          /\ springs[k].source = springs[k].target
          /\ link_indices[k] = <<1, 1>>
          /\ links[k].source # node_infos[2].id

\* ------------------------------------------------------------------------
\* compute_bounds
\* ------------------------------------------------------------------------
\* compute_bounds has returned
BoundsReturned == bounds_value # <<>>

\* C24 (exact bounds): compute_bounds returns (0, 0, 0, 0) for an empty list
\* of nodes; otherwise min_x is the least x - radius minus 20, max_x the
\* greatest x + radius plus 20, and likewise for y: no node reaches closer
\* than 20 to an edge, some node is exactly 20 from each edge, and
\* min_x <= max_x and min_y <= max_y.
C24_ExactBounds ==
    BoundsReturned =>
        IF node_list = <<>> THEN bounds_value = <<0, 0, 0, 0>>
        ELSE LET n == 1..Len(node_list)
                 b == bounds_value
             IN /\ \A i \in n : node_list[i].x - node_list[i].radius - BOUNDS_PADDING >= b[1]
                /\ \E i \in n : node_list[i].x - node_list[i].radius - BOUNDS_PADDING = b[1]
                /\ \A i \in n : node_list[i].x + node_list[i].radius + BOUNDS_PADDING <= b[2]
                /\ \E i \in n : node_list[i].x + node_list[i].radius + BOUNDS_PADDING = b[2]
                /\ \A i \in n : node_list[i].y - node_list[i].radius - BOUNDS_PADDING >= b[3]
                /\ \E i \in n : node_list[i].y - node_list[i].radius - BOUNDS_PADDING = b[3]
                /\ \A i \in n : node_list[i].y + node_list[i].radius + BOUNDS_PADDING <= b[4]
                /\ \E i \in n : node_list[i].y + node_list[i].radius + BOUNDS_PADDING = b[4]
                /\ b[1] <= b[2] /\ b[3] <= b[4]

\* compute_bounds has returned (0, 0, 0, 0) for the empty list
C24_Witness ==
    /\ BoundsReturned
    /\ node_list = <<>>
    /\ bounds_value = <<0, 0, 0, 0>>

\* compute_bounds has returned for two nodes: the left and bottom edges are
\* set by the small node at (-50, 40), the right and top edges by the large
\* node at (30, -30)
C24_TwoNodes ==
    /\ BoundsReturned
    /\ Len(node_list) = 2
    /\ At(node_list[1], -50, 40) /\ node_list[1].radius = ISSUE_RADIUS
    /\ At(node_list[2], 30, -30) /\ node_list[2].radius = DELIVERER_RADIUS
    /\ bounds_value = <<-88, 90, -90, 78>>

\* ------------------------------------------------------------------------
\* License key format
\* ------------------------------------------------------------------------
\* the base64 text of the bytes being printed has a '-' in it
DashInText == \E i \in 1..Len(Base64Encode(combined)) : Base64Encode(combined)[i] = "-"

\* C29 (license key round trip): verify_license, which strips the prefix and
\* removes every dash, decodes the key that generate_license printed to the
\* payload and signature bytes it was made from.
C29_KeyRoundTrip ==
    decoded.called => (decoded.ok /\ decoded.bytes = combined)

\* the same for the keys whose base64 text has no '-' in it
C29_RoundTripWithoutDash ==
    (decoded.called /\ ~DashInText) => (decoded.ok /\ decoded.bytes = combined)

\* the key printed for the bytes 00 00 3E is ABF-AAA-: without its dashes
\* it decodes, without an error, to the two bytes 00 00
C29_DashLost ==
    /\ decoded.called
    /\ combined = <<0, 0, 62>>
    /\ printed_key = <<"A", "B", "F", "-", "A", "A", "A", "-">>
    /\ decoded.ok
    /\ decoded.bytes = <<0, 0>>

\* ------------------------------------------------------------------------
\* Bike movement simulation
\* ------------------------------------------------------------------------
\* a is a number between min and max
Within(a, min, max) == IsNum(a) /\ min <= a.v /\ a.v <= max

\* the bike is inside the operational bounds
InBounds(bike) ==
    /\ Within(bike.longitude, MIN_LNG, MAX_LNG)
    /\ Within(bike.latitude, MIN_LAT, MAX_LAT)

\* C21 (operational bounds): whatever the positions, the seed or the
\* timestamp, every bike that simulateBikeMovement or simulationTick returns
\* has its longitude in [4.85, 4.95] and its latitude in [52.34, 52.40], and
\* as many bikes are returned as were given.
C21_InBounds ==
    sim_result.ok =>
        /\ Len(sim_result.bikes) = Len(sim_result.given)
        /\ \A i \in 1..Len(sim_result.bikes) : InBounds(sim_result.bikes[i])

\* the same for the calls whose seed or timestamp is a number and whose bikes
\* have no NaN coordinate; an infinite coordinate is clamped
C21_InBoundsWithoutNaN ==
    (/\ sim_result.ok
     /\ IsNum(sim_result.seed)
     /\ \A i \in 1..Len(sim_result.given) :
           ~IsNaN(sim_result.given[i].longitude) /\ ~IsNaN(sim_result.given[i].latitude))
        => /\ Len(sim_result.bikes) = Len(sim_result.given)
           /\ \A i \in 1..Len(sim_result.bikes) : InBounds(sim_result.bikes[i])

\* as many bikes are returned as were given, and they keep their ids
C21_SameBikes ==
    sim_result.ok => Ids(sim_result.bikes) = Ids(sim_result.given)

\* a second call was given a bike inside the bounds and the seed NaN, and
\* returned the bike with NaN for its longitude and its latitude, counting no
\* correction
C21_NaNReturned ==
    /\ sim_result.ok /\ sim_result.seq = 2
    /\ IsNaN(sim_result.seed)
    /\ Len(sim_result.given) >= 1
    /\ InBounds(sim_result.given[1])
    /\ IsNaN(sim_result.bikes[1].longitude) /\ IsNaN(sim_result.bikes[1].latitude)
    /\ sim_result.bounds_corrections = 0

\* a call moved the bike at the north-east corner east and was clamped: the
\* bike is still at the corner, and one correction is counted
C21_Clamped ==
    /\ sim_result.ok
    /\ sim_result.seed = Num(0)
    /\ Len(sim_result.given) = 1
    /\ sim_result.given[1].longitude = Num(MAX_LNG)
    /\ sim_result.bikes[1].longitude = Num(MAX_LNG)
    /\ sim_result.bounds_corrections = 1

====
